---- MODULE Spec2Model ----
(***************************************************************************)
(* Growth / CAGR utilities of the frontend (src/frontend/src/utils/        *)
(* growth.ts).  computeCfsnGrowth is a pure function; a caller holds an    *)
(* entries array and a maxYears argument and invokes it once.              *)
(*                                                                         *)
(* JavaScript numbers are modelled as tagged records: a finite number is   *)
(* an exact reduced fraction n/d, and NaN, +Infinity, -Infinity and        *)
(* undefined are separate tags.  Arithmetic on finite numbers is exact     *)
(* (as IEEE-754 doubles are on the integer amounts and years used here);   *)
(* arithmetic on the non-finite numbers follows IEEE-754.                  *)
(***************************************************************************)
EXTENDS Integers, Sequences, FiniteSets, TLC

VARIABLES entries, maxYears, pc, normalized, usable, spanYears, ratio, result, returnLine

\* formatGrowthPercentage: the arguments of one call and what it returns
VARIABLES fmtGrowth, fmtDigits, formatted, fpc

growthVars == <<entries, maxYears, pc, normalized, usable, spanYears, ratio, result, returnLine>>
formatVars == <<fmtGrowth, fmtDigits, formatted, fpc>>

\* several callers of the two functions that hold the same entries array: the
\* arrays on the heap, the array as it was handed to the callers, and each
\* caller's arguments, results and position
VARIABLES heap, given, callers

callerVars == <<heap, given, callers>>

\* buildEsopValueSeries: the records of one call and the series it returns
VARIABLES records, series, epc

esopVars == <<records, series, epc>>

\* the currency formatters: an amount and what each formatter returned for it
VARIABLES amount, compact, axisTick, raw

currencyVars == <<amount, compact, axisTick, raw>>

\* ApiClient (lib/api.ts): localStorage, the two private fields, the refresh
\* POSTs whose response or whose body is outstanding, the counters that name
\* promises and tokens, the token each resolved refresh stored, the
\* authenticated requests, and the position of logout() and the logins
VARIABLES storage, isRefreshing, refreshPromise, posting, parsing, nextPromise,
          issued, stored, requests, logoutPc, logins

apiVars == <<storage, isRefreshing, refreshPromise, posting, parsing, nextPromise,
             issued, stored, requests, logoutPc, logins>>

\* an id-parameterised fetch hook (hooks/useDataApi.ts): which hook it is,
\* the id of the latest render, the hook's state, the fetches whose response
\* is outstanding, and the number of effects run
VARIABLES hook, companyId, state, inflight, started

hookVars == <<hook, companyId, state, inflight, started>>

\* the Compensation Summary of DirectorDetailsSection: a director's records
\* sorted by year and the two growth values the summary computes from them
VARIABLES sortedRecords, cagrValue, growthRate, summaryPc

summaryVars == <<sortedRecords, cagrValue, growthRate, summaryPc>>

\* a mounted EsopValueChart: the series prop and the output of its latest
\* render, the hooks that render called and those the mounting render
\* called, the state of useState, and the number of renders
VARIABLES chartSeries, chartOutput, hookCalls, mountHookCalls, hovered, chartRenders

chartVars == <<chartSeries, chartOutput, hookCalls, mountHookCalls, hovered, chartRenders>>

\* AuthProvider and the AdminPage under it: localStorage, the provider's two
\* states, the position of initAuth and of the calls of login, register,
\* logout and refreshToken, what the promise of the latest register call
\* settled to, the number of calls, and AdminPage's tab and latest output
VARIABLES authStorage, authUser, isLoading, initPc, loginPc, registerPc, signOutPc,
          refreshPc, registerResult, authCalls, activeTab, adminOutput

authVars == <<authStorage, authUser, isLoading, initPc, loginPc, registerPc, signOutPc,
              refreshPc, registerResult, authCalls, activeTab, adminOutput>>

vars == <<growthVars, formatVars, callerVars, esopVars, currencyVars, apiVars, hookVars, summaryVars, chartVars, authVars>>

(***************************************************************************)
(* Numbers                                                                 *)
(***************************************************************************)
RECURSIVE GCD(_, _)
GCD(a, b) == IF b = 0 THEN a ELSE GCD(b, a % b)

Abs(n) == IF n < 0 THEN -n ELSE n

\* the finite number n/d (d > 0), reduced
Frac(n, d) ==
    LET g == GCD(Abs(n), d)
    IN  [k |-> "fin", n |-> n \div g, d |-> d \div g]

Fin(n) == [k |-> "fin", n |-> n, d |-> 1]
NaN == [k |-> "nan", n |-> 0, d |-> 1]
Infinity == [k |-> "inf", n |-> 1, d |-> 1]
NegInfinity == [k |-> "inf", n |-> -1, d |-> 1]
undefined == [k |-> "undefined", n |-> 0, d |-> 1]
null == [k |-> "null", n |-> 0, d |-> 1]
TypeError == [k |-> "throw", n |-> 0, d |-> 1]

\* Number.isFinite(x): false for NaN, the infinities and every non-number
isFinite(x) == x.k = "fin"

\* ToNumber of an operand of an arithmetic operator
ToNumber(x) == IF x.k = "undefined" THEN NaN ELSE IF x.k = "null" THEN Fin(0) ELSE x

\* sign of a number that is not NaN: -1, 0 or 1
Sign(x) == IF x.n < 0 THEN -1 ELSE IF x.n > 0 THEN 1 ELSE 0

\* a < b on numbers (false as soon as one side is NaN)
Less(a0, b0) ==
    LET a == ToNumber(a0)
        b == ToNumber(b0)
    IN  IF a.k = "nan" \/ b.k = "nan" THEN FALSE
        ELSE IF a.k = "inf" THEN a.n < 0 /\ ~(b.k = "inf" /\ b.n < 0)
        ELSE IF b.k = "inf" THEN b.n > 0
        ELSE a.n * b.d < b.n * a.d

\* a <= 0
LeqZero(a0) ==
    LET a == ToNumber(a0)
    IN  a.k # "nan" /\ Sign(a) <= 0

Neg(a0) ==
    LET a == ToNumber(a0)
    IN  IF a.k = "nan" THEN NaN ELSE [a EXCEPT !.n = -a.n]

\* a + b
Plus(a0, b0) ==
    LET a == ToNumber(a0)
        b == ToNumber(b0)
    IN  IF a.k = "nan" \/ b.k = "nan" THEN NaN
        ELSE IF a.k = "inf" /\ b.k = "inf" THEN (IF a.n = b.n THEN a ELSE NaN)
        ELSE IF a.k = "inf" THEN a
        ELSE IF b.k = "inf" THEN b
        ELSE Frac(a.n * b.d + b.n * a.d, a.d * b.d)

\* a - b
Minus(a, b) == Plus(a, Neg(b))

\* 2^27.  A double carries 53 significant bits: x - 1 is -1 for every
\* 0 <= x <= 2^-54 = 1 / (2^27 * 2^27) (the tie 2^-54 rounds to the even -1).
TwoTo27 == 134217728

\* n * 2^i <= d1 * d2 by long division, for n * 2^(54 - i) = q * d1 + r
RECURSIVE ScaledAtMost(_, _, _, _, _)
ScaledAtMost(q, r, i, d1, d2) ==
    IF q > d2 THEN FALSE
    ELSE IF i = 0 THEN q < d2 \/ r = 0
    ELSE IF q > d2 \div 2 THEN FALSE
    ELSE ScaledAtMost(2 * q + (IF 2 * r >= d1 THEN 1 ELSE 0), (2 * r) % d1, i - 1, d1, d2)

\* 0 < n / (d1 * d2) <= 2^-54
IsBelowHalfUlp(n, d1, d2) ==
    /\ n > 0
    /\ d1 >= TwoTo27 \/ d2 >= TwoTo27
    /\ ScaledAtMost(n \div d1, n % d1, 54, d1, d2)

\* the number n / (d1 * d2) for n >= 0: a number of 2^-54 at most is kept in
\* its factors, every other one as a reduced fraction
Quotient(n, d1, d2) ==
    IF IsBelowHalfUlp(n, d1, d2)
    THEN [k |-> "fin", n |-> n, d |-> d1, d2 |-> d2]
    ELSE Frac(n, d1 * d2)

\* a finite number kept in factors: 0 < |x| <= 2^-54
IsInFactors(x) == x.k = "fin" /\ "d2" \in DOMAIN x

\* a / b (the sign of a zero is not tracked: a zero divisor counts as +0)
Divide(a0, b0) ==
    LET a == ToNumber(a0)
        b == ToNumber(b0)
    IN  IF a.k = "nan" \/ b.k = "nan" THEN NaN
        ELSE IF a.k = "inf" /\ b.k = "inf" THEN NaN
        ELSE IF a.k = "inf" THEN (IF Sign(b) < 0 THEN Neg(a) ELSE a)
        ELSE IF b.k = "inf" THEN Fin(0)
        ELSE IF b.n = 0 THEN (IF a.n = 0 THEN NaN
                              ELSE IF a.n > 0 THEN Infinity ELSE NegInfinity)
        ELSE IF (a.n > 0) = (b.n > 0) THEN Quotient(Abs(a.n) * b.d, a.d, Abs(b.n))
        ELSE Neg(Quotient(Abs(a.n) * b.d, a.d, Abs(b.n)))

\* Math.max(a, b)
MathMax(a0, b0) ==
    LET a == ToNumber(a0)
        b == ToNumber(b0)
    IN  IF a.k = "nan" \/ b.k = "nan" THEN NaN
        ELSE IF Less(a, b) THEN b ELSE a

RECURSIVE IntPow(_, _)
IntPow(b, e) == IF e = 0 THEN 1 ELSE b * IntPow(b, e - 1)

\* n is the j-th power of a positive integer
IsPower(n, j) == \E r \in 1..n : IntPow(r, j) = n

IntRoot(n, j) == CHOOSE r \in 1..n : IntPow(r, j) = n

\* The real number (n/d)^(1/s) - 1 for integers n, d, s >= 1, in the unique form
\* [n, d, root] with n/d reduced and root the least exponent whose power of
\* (n/d)^(1/s) is rational, so that two such records are equal exactly when
\* the numbers are.
RootMinusOne(n0, d0, s) ==
    LET f == Frac(n0, d0)
        j == CHOOSE i \in 1..s :
                /\ s % i = 0 /\ IsPower(f.n, i) /\ IsPower(f.d, i)
                /\ \A i2 \in (i + 1)..s :
                      ~(s % i2 = 0 /\ IsPower(f.n, i2) /\ IsPower(f.d, i2))
    IN  IF f.n = f.d THEN [k |-> "fin", n |-> 1, d |-> 1, root |-> 1]
        ELSE [k |-> "fin", n |-> IntRoot(f.n, j), d |-> IntRoot(f.d, j), root |-> s \div j]

\* 1 - q instead of q - 1
RationalMinusOneMutSwapped(q) ==
    IF IsInFactors(q) THEN [k |-> "fin", n |-> 2, d |-> 1, root |-> 1]
    ELSE LET f == Frac(2 * q.d - q.n, q.d)
         IN  [k |-> "fin", n |-> f.n, d |-> f.d, root |-> 1]

\* q - 1 for a rational q: the double -1 for a q of 2^-54 at most
RationalMinusOne(q) ==
    IF IsInFactors(q) THEN [k |-> "fin", n |-> 0, d |-> 1, root |-> 1]
    ELSE [k |-> "fin", n |-> q.n, d |-> q.d, root |-> 1]

\* Math.pow(ratio, 1 / spanYears) - 1, for an integral spanYears
PowMinusOne(ratio0, spanYears0) ==
    LET r == ToNumber(ratio0)
        e == Divide(Fin(1), spanYears0)
    IN  IF e.k = "nan" THEN NaN
        ELSE IF e.k = "fin" /\ e.n = 0 THEN RationalMinusOne(Fin(1))
        ELSE IF r.k = "nan" THEN NaN
        ELSE IF e.k = "inf"
             THEN (IF r.k = "fin" /\ Abs(r.n) = r.d THEN NaN
                   ELSE IF (r.k = "inf" \/ Abs(r.n) > r.d) = (e.n > 0)
                        THEN Infinity ELSE RationalMinusOne(Fin(0)))
        ELSE IF r.k = "inf"
             THEN (IF e.n < 0 THEN RationalMinusOne(Fin(0))
                   ELSE IF r.n > 0 \/ e.d = 1 THEN r ELSE Infinity)
        ELSE IF r.n = 0
             THEN (IF e.n < 0 THEN Infinity ELSE RationalMinusOne(Fin(0)))
        ELSE IF e.d = 1
             THEN RationalMinusOne(IF e.n > 0 THEN r ELSE Divide(Fin(1), r))
        ELSE IF r.n < 0 THEN NaN
        ELSE IF IsInFactors(r) /\ e.n > 0
             THEN [k |-> "fin", n |-> r.n, d |-> r.d, d2 |-> r.d2, root |-> e.d]
        ELSE IF e.n > 0 THEN RootMinusOne(r.n, r.d, e.d)
        ELSE RootMinusOne(r.d, r.n, e.d)

(***************************************************************************)
(* Each state machine below runs one of the functions; the variables of    *)
(* the others rest at their idle values.                                   *)
(***************************************************************************)
\* no call of computeCfsnGrowth is under way
GrowthIdle ==
    /\ entries = <<>>
    /\ maxYears = undefined
    /\ pc = "idle"
    /\ normalized = <<>>
    /\ usable = <<>>
    /\ spanYears = undefined
    /\ ratio = undefined
    /\ result = undefined
    /\ returnLine = 0

\* no call of formatGrowthPercentage is under way
FormatIdle ==
    /\ fmtGrowth = undefined
    /\ fmtDigits = undefined
    /\ formatted = undefined
    /\ fpc = "idle"

\* no caller shares an array
CallersIdle ==
    /\ heap = <<>>
    /\ given = <<>>
    /\ callers = <<>>

\* no call of buildEsopValueSeries is under way
EsopIdle ==
    /\ records = <<>>
    /\ series = <<>>
    /\ epc = "idle"

\* no currency formatter has an amount to format
CurrencyIdle ==
    /\ amount = undefined
    /\ compact = undefined
    /\ axisTick = undefined
    /\ raw = undefined

\* the ApiClient is not in use
ApiIdle ==
    /\ storage = [access_token |-> 0, refresh_token |-> 0, user |-> 0]
    /\ isRefreshing = FALSE
    /\ refreshPromise = 0
    /\ posting = {}
    /\ parsing = {}
    /\ nextPromise = 1
    /\ issued = 0
    /\ stored = {}
    /\ requests = <<>>
    /\ logoutPc = "idle"
    /\ logins = 0

\* no fetch hook is mounted
HookIdle ==
    /\ hook = "none"
    /\ companyId = "undefined"
    /\ state = [data |-> "null", loading |-> FALSE, error |-> FALSE]
    /\ inflight = {}
    /\ started = 0

\* no Compensation Summary is rendered
SummaryIdle ==
    /\ sortedRecords = <<>>
    /\ cagrValue = null
    /\ growthRate = null
    /\ summaryPc = "idle"

\* no EsopValueChart is mounted
ChartIdle ==
    /\ chartSeries = <<>>
    /\ chartOutput = [kind |-> "none", axes |-> 0, ticks |-> FALSE, bars |-> 0]
    /\ hookCalls = <<>>
    /\ mountHookCalls = <<>>
    /\ hovered = null
    /\ chartRenders = 0

\* no AuthProvider is mounted
AuthIdle ==
    /\ authStorage = [access_token |-> 0, refresh_token |-> 0, user |-> 0]
    /\ authUser = 0
    /\ isLoading = FALSE
    /\ initPc = "none"
    /\ loginPc = "idle"
    /\ registerPc = "idle"
    /\ signOutPc = "idle"
    /\ refreshPc = "idle"
    /\ registerResult = "none"
    /\ authCalls = 0
    /\ activeTab = "users"
    /\ adminOutput = "none"

OnlyGrowth == FormatIdle /\ CallersIdle /\ EsopIdle /\ CurrencyIdle /\ ApiIdle /\ HookIdle /\ SummaryIdle /\ ChartIdle /\ AuthIdle
OnlyFormat == GrowthIdle /\ CallersIdle /\ EsopIdle /\ CurrencyIdle /\ ApiIdle /\ HookIdle /\ SummaryIdle /\ ChartIdle /\ AuthIdle
OnlyCallers == GrowthIdle /\ FormatIdle /\ EsopIdle /\ CurrencyIdle /\ ApiIdle /\ HookIdle /\ SummaryIdle /\ ChartIdle /\ AuthIdle
OnlyEsop == GrowthIdle /\ FormatIdle /\ CallersIdle /\ CurrencyIdle /\ ApiIdle /\ HookIdle /\ SummaryIdle /\ ChartIdle /\ AuthIdle
OnlyCurrency == GrowthIdle /\ FormatIdle /\ CallersIdle /\ EsopIdle /\ ApiIdle /\ HookIdle /\ SummaryIdle /\ ChartIdle /\ AuthIdle
OnlyApi == GrowthIdle /\ FormatIdle /\ CallersIdle /\ EsopIdle /\ CurrencyIdle /\ HookIdle /\ SummaryIdle /\ ChartIdle /\ AuthIdle
OnlyHook == GrowthIdle /\ FormatIdle /\ CallersIdle /\ EsopIdle /\ CurrencyIdle /\ ApiIdle /\ SummaryIdle /\ ChartIdle /\ AuthIdle
OnlySummary == GrowthIdle /\ FormatIdle /\ CallersIdle /\ EsopIdle /\ CurrencyIdle /\ ApiIdle /\ HookIdle /\ ChartIdle /\ AuthIdle
OnlyChart == GrowthIdle /\ FormatIdle /\ CallersIdle /\ EsopIdle /\ CurrencyIdle /\ ApiIdle /\ HookIdle /\ SummaryIdle /\ AuthIdle
OnlyAuth == GrowthIdle /\ FormatIdle /\ CallersIdle /\ EsopIdle /\ CurrencyIdle /\ ApiIdle /\ HookIdle /\ SummaryIdle /\ ChartIdle

otherThanGrowth == <<formatVars, callerVars, esopVars, currencyVars, apiVars, hookVars, summaryVars, chartVars, authVars>>
otherThanFormat == <<growthVars, callerVars, esopVars, currencyVars, apiVars, hookVars, summaryVars, chartVars, authVars>>
otherThanCallers == <<growthVars, formatVars, esopVars, currencyVars, apiVars, hookVars, summaryVars, chartVars, authVars>>
otherThanEsop == <<growthVars, formatVars, callerVars, currencyVars, apiVars, hookVars, summaryVars, chartVars, authVars>>
otherThanCurrency == <<growthVars, formatVars, callerVars, esopVars, apiVars, hookVars, summaryVars, chartVars, authVars>>
otherThanApi == <<growthVars, formatVars, callerVars, esopVars, currencyVars, hookVars, summaryVars, chartVars, authVars>>
otherThanHook == <<growthVars, formatVars, callerVars, esopVars, currencyVars, apiVars, summaryVars, chartVars, authVars>>
otherThanSummary == <<growthVars, formatVars, callerVars, esopVars, currencyVars, apiVars, hookVars, chartVars, authVars>>
otherThanChart == <<growthVars, formatVars, callerVars, esopVars, currencyVars, apiVars, hookVars, summaryVars, authVars>>
otherThanAuth == <<growthVars, formatVars, callerVars, esopVars, currencyVars, apiVars, hookVars, summaryVars, chartVars>>

(***************************************************************************)
(* growth.ts                                                               *)
(***************************************************************************)
MAX_YEARS_DEFAULT == 5

\* an element of the entries array: an object {year, value}, or null
Entry(y, v) == [year |-> y, value |-> v]

\* lines 12-18 without the test of entry.value <= 0
IsSkippedMutNoSignCheck(entry) ==
    entry = null \/ ~isFinite(entry.year) \/ ~isFinite(entry.value)

\* lines 12-18: the entries the forEach callback returns on without counting
IsSkipped(entry) ==
    \/ entry = null \/ ~isFinite(entry.year) \/ ~isFinite(entry.value)
    \/ LeqZero(entry.value)

\* yearMap.get(year) ?? 0, on a Map kept as its [year, value] pairs in
\* insertion order
yearMapGet(yearMap, year) ==
    IF \E i \in 1..Len(yearMap) : yearMap[i].year = year
    THEN yearMap[CHOOSE i \in 1..Len(yearMap) : yearMap[i].year = year].value
    ELSE Fin(0)

\* yearMap.set(year, value): an existing key keeps its position
yearMapSet(yearMap, year, value) ==
    IF \E i \in 1..Len(yearMap) : yearMap[i].year = year
    THEN [i \in 1..Len(yearMap) |->
            IF yearMap[i].year = year THEN Entry(year, value) ELSE yearMap[i]]
    ELSE Append(yearMap, Entry(year, value))

\* lines 20-21 with set(entry.year, entry.value): the last entry of a year wins
AccumulateMutLastWins(yearMap, entry) ==
    yearMapSet(yearMap, entry.year, entry.value)

\* lines 20-21 with the nullish default 1 instead of 0
AccumulateMutDefaultOne(yearMap, entry) ==
    yearMapSet(yearMap, entry.year,
               IF \E i \in 1..Len(yearMap) : yearMap[i].year = entry.year
               THEN Plus(yearMapGet(yearMap, entry.year), entry.value)
               ELSE Plus(Fin(1), entry.value))

\* lines 20-21 with an array push instead of the Map: no merging of a year
AccumulateMutNoMerge(yearMap, entry) == Append(yearMap, entry)

\* lines 20-21
Accumulate(yearMap, entry) ==
    yearMapSet(yearMap, entry.year, Plus(yearMapGet(yearMap, entry.year), entry.value))

\* lines 11-22: entries.forEach(...), from the empty Map
RECURSIVE forEachEntry(_)
forEachEntry(es) ==
    IF Len(es) = 0 THEN <<>>
    ELSE LET yearMap == forEachEntry(SubSeq(es, 1, Len(es) - 1))
             entry == es[Len(es)]
         IN  IF IsSkipped(entry) THEN yearMap ELSE Accumulate(yearMap, entry)

\* the comparator (a, b) => a.year - b.year puts a after b when it is > 0
ComesAfter(a, b) == Less(Fin(0), Minus(a.year, b.year))

\* insert e in the sorted array arr behind every element it does not precede
RECURSIVE InsertSorted(_, _)
InsertSorted(arr, e) ==
    IF Len(arr) = 0 THEN <<e>>
    ELSE IF ComesAfter(arr[Len(arr)], e)
         THEN Append(InsertSorted(SubSeq(arr, 1, Len(arr) - 1), e), arr[Len(arr)])
         ELSE Append(arr, e)

RECURSIVE StableSort(_)
StableSort(arr) ==
    IF Len(arr) = 0 THEN <<>>
    ELSE InsertSorted(StableSort(SubSeq(arr, 1, Len(arr) - 1)), arr[Len(arr)])

\* lines 24-26 without the sort: the Map's insertion order
sortByYearMutNoSort(arr) == arr

\* lines 24-26: .sort((a, b) => a.year - b.year)
sortByYear(arr) == StableSort(arr)

\* lines 8-27
sanitizeEntries(es) == sortByYear(forEachEntry(es))

\* ToIntegerOrInfinity of a slice index: NaN is 0, a fraction is truncated
ToIntegerOrInfinity(x0) ==
    LET x == ToNumber(x0)
    IN  IF x.k = "nan" THEN Fin(0)
        ELSE IF x.k = "inf" THEN x
        ELSE IF x.n < 0 THEN Fin(-((-x.n) \div x.d)) ELSE Fin(x.n \div x.d)

\* arr.slice(start)
slice(arr, start) ==
    LET rel == ToIntegerOrInfinity(start)
        from == IF rel.k = "inf" THEN (IF rel.n < 0 THEN 0 ELSE Len(arr))
                ELSE IF rel.n < 0 THEN (IF Len(arr) + rel.n < 0 THEN 0 ELSE Len(arr) + rel.n)
                ELSE IF rel.n > Len(arr) THEN Len(arr) ELSE rel.n
    IN  SubSeq(arr, from + 1, Len(arr))

\* line 35 with slice(-maxYears): no lower limit of 2 on the window
windowMutNoMinimum(norm, maxYearsArg) == slice(norm, Neg(maxYearsArg))

\* line 35: normalized.slice(-Math.max(maxYears, 2))
window(norm, maxYearsArg) == slice(norm, Neg(MathMax(maxYearsArg, Fin(2))))

\* line 47 counting the entries instead of the periods between them
spanMutLength(first, last, len) == MathMax(Minus(last.year, first.year), Fin(len))

\* line 47: Math.max(last.year - first.year, usable.length - 1)
span(first, last, len) == MathMax(Minus(last.year, first.year), Fin(len - 1))

\* the locals of a call of computeCfsnGrowth when it returns at returnLine
Frame(norm, use, sp, rat, res, line) ==
    [normalized |-> norm, usable |-> use, spanYears |-> sp, ratio |-> rat,
     result |-> res, returnLine |-> line]

\* lines 40-62 without the length guards of lines 31-38
RunMutNoLengthGuard(es, maxYearsArg) ==
    LET maxY == IF maxYearsArg = undefined THEN Fin(MAX_YEARS_DEFAULT) ELSE maxYearsArg
        norm == sanitizeEntries(es)
        use == window(norm, maxY)
    IN  IF Len(use) = 0 THEN Frame(norm, use, undefined, undefined, TypeError, 43)
        ELSE LET first == use[1]
                 last == use[Len(use)]
                 sp == span(first, last, Len(use))
                 rat == Divide(last.value, first.value)
                 growth == PowMinusOne(rat, sp)
             IN  IF LeqZero(first.value) \/ LeqZero(last.value)
                 THEN Frame(norm, use, undefined, undefined, null, 44)
                 ELSE IF LeqZero(sp) THEN Frame(norm, use, sp, undefined, null, 49)
                 ELSE IF LeqZero(rat) THEN Frame(norm, use, sp, rat, null, 54)
                 ELSE IF ~isFinite(growth) THEN Frame(norm, use, sp, rat, null, 59)
                 ELSE Frame(norm, use, sp, rat, growth, 62)

\* lines 29-63: the call computeCfsnGrowth(es, maxYearsArg), with its locals
Run(es, maxYearsArg) ==
    LET maxY == IF maxYearsArg = undefined THEN Fin(MAX_YEARS_DEFAULT) ELSE maxYearsArg
        norm == sanitizeEntries(es)
        use == window(norm, maxY)
    IN  IF Len(norm) < 2 THEN Frame(norm, <<>>, undefined, undefined, null, 32)
        ELSE IF Len(use) < 2 THEN Frame(norm, use, undefined, undefined, null, 37)
        ELSE LET first == use[1]
                 last == use[Len(use)]
                 sp == span(first, last, Len(use))
                 rat == Divide(last.value, first.value)
                 growth == PowMinusOne(rat, sp)
             IN  IF LeqZero(first.value) \/ LeqZero(last.value)
                 THEN Frame(norm, use, undefined, undefined, null, 44)
                 ELSE IF LeqZero(sp) THEN Frame(norm, use, sp, undefined, null, 49)
                 ELSE IF LeqZero(rat) THEN Frame(norm, use, sp, rat, null, 54)
                 ELSE IF ~isFinite(growth) THEN Frame(norm, use, sp, rat, null, 59)
                 ELSE Frame(norm, use, sp, rat, growth, 62)

\* the value computeCfsnGrowth(es, maxYearsArg) returns
computeCfsnGrowth(es, maxYearsArg) == Run(es, maxYearsArg).result

(***************************************************************************)
(* The caller's inputs                                                     *)
(***************************************************************************)
MaxLen == 3

Years == {Fin(2020), Fin(2021), Fin(2023)}
Values == {Fin(50), Fin(100)}

ValidEntries == {Entry(y, v) : y \in Years, v \in Values}

\* skipped entries that every input position ranges over
InvalidEntries == {null, Entry(Fin(2020), Fin(-50))}

\* the other kinds of entries that sanitizeEntries skips
EdgeEntries ==
    {Entry(Fin(2020), Fin(0)), Entry(Fin(2021), NaN), Entry(Fin(2021), Infinity),
     Entry(Fin(2023), NegInfinity), Entry(Fin(2023), undefined),
     Entry(NaN, Fin(100)), Entry(Infinity, Fin(50)), Entry(undefined, Fin(50))}

EntryDomain == ValidEntries \cup InvalidEntries

SeqsUpTo(S, n) == UNION {[1..m -> S] : m \in 0..n}

\* maxYears arguments: every input ranges over the first set, the inputs
\* without skipped entries also over the second
MaxYearsDomain == {Fin(0), Fin(1), Fin(2), Fin(3), undefined}
MaxYearsEdge == {Fin(-1), NaN}

\* the calls the specification's scenarios name
ScenarioCalls ==
    { <<(<<Entry(Fin(2020), Fin(100)), Entry(Fin(2020), Fin(50)),
           Entry(Fin(2021), Fin(300))>>), undefined>>,
      <<(<<Entry(Fin(2021), Fin(1000)), Entry(Fin(2022), Fin(1100)),
           Entry(Fin(2023), Fin(1210))>>), Fin(5)>>,
      <<(<<Entry(Fin(2020), Fin(-50))>>), undefined>> }

\* a skipped entry of another kind in front of or behind valid entries
EdgeSeqs ==
    UNION {{<<e>> \o es, Append(es, e)} :
              e \in EdgeEntries, es \in SeqsUpTo(ValidEntries, MaxLen - 1)}

\* calls with several kinds of skipped entries and other kinds of maxYears
EdgeCalls ==
    { <<(<<null, Entry(Fin(2021), Infinity), Entry(NaN, Fin(100)),
           Entry(Fin(2020), Fin(100))>>), NaN>>,
      <<(<<Entry(Fin(2020), Fin(0)), Entry(Fin(2020), Fin(100)),
           Entry(Fin(2021), NaN), Entry(Fin(2021), Fin(300))>>), Infinity>>,
      <<(<<Entry(Fin(2021), Fin(50)), Entry(Fin(2020), undefined),
           Entry(Infinity, Fin(50)), Entry(Fin(2023), Fin(100)),
           Entry(Fin(2020), NegInfinity), Entry(Fin(2020), Fin(100))>>), NegInfinity>>,
      <<(<<Entry(undefined, Fin(50)), Entry(NegInfinity, Fin(50)),
           Entry(Fin(2022), Fin(50)), Entry(Fin(2021), Fin(0)),
           Entry(Fin(2021), Fin(100))>>), Frac(5, 2)>>,
      <<(<<Entry(Frac(4041, 2), Fin(100)), Entry(Fin(2020), Fin(50))>>), undefined>>,
      <<(<<Entry(Fin(2019), Fin(100)), Entry(Fin(2020), Fin(50)),
           Entry(Fin(2021), Fin(100)), Entry(Fin(2023), Fin(100))>>), Fin(3)>> }

\* the arguments of the calls
Calls ==
    (SeqsUpTo(EntryDomain, MaxLen) \X MaxYearsDomain)
        \cup (SeqsUpTo(ValidEntries, MaxLen) \X MaxYearsEdge)
        \cup (EdgeSeqs \X {undefined})
        \cup ScenarioCalls \cup EdgeCalls

(***************************************************************************)
(* The state machine: one call of computeCfsnGrowth by a caller            *)
(***************************************************************************)
Init ==
    /\ \E c \in Calls : entries = c[1] /\ maxYears = c[2]
    /\ pc = "call"
    /\ normalized = <<>>
    /\ usable = <<>>
    /\ spanYears = undefined
    /\ ratio = undefined
    /\ result = undefined
    /\ returnLine = 0
    /\ OnlyGrowth

\* the caller evaluates computeCfsnGrowth(entries, maxYears)
Call ==
    /\ pc = "call"
    /\ \E f \in {Run(entries, maxYears)} :
           /\ normalized' = f.normalized
           /\ usable' = f.usable
           /\ spanYears' = f.spanYears
           /\ ratio' = f.ratio
           /\ result' = f.result
           /\ returnLine' = f.returnLine
    /\ pc' = "done"
    /\ UNCHANGED <<entries, maxYears>>
    /\ UNCHANGED otherThanGrowth

Next == Call

Spec == Init /\ [][Next]_vars

TypeOK ==
    /\ pc \in {"idle", "call", "done"}
    /\ returnLine \in {0, 32, 37, 44, 49, 54, 59, 62}

(***************************************************************************)
(* Properties                                                              *)
(***************************************************************************)
\* a * c for a finite factor c > 0
Times(a0, c) ==
    LET a == ToNumber(a0)
    IN  IF a.k = "fin" THEN Frac(a.n * c.n, a.d * c.d) ELSE a

\* the growth rate p/q (q > 0) as a result of computeCfsnGrowth
GrowthRate(p, q) ==
    LET f == Frac(p + q, q)
    IN  [k |-> "fin", n |-> f.n, d |-> f.d, root |-> 1]

IsNumber(r) == r.k = "fin"

\* an entry that is an object with a finite year and a finite value > 0
IsValid(e) ==
    /\ e # null
    /\ e.year.k = "fin"
    /\ e.value.k = "fin"
    /\ e.value.n > 0

ValidYears(es) == {es[i].year : i \in {j \in 1..Len(es) : IsValid(es[j])}}

\* the sum of the values of the valid entries of es with year y
RECURSIVE YearTotal(_, _)
YearTotal(es, y) ==
    IF Len(es) = 0 THEN Fin(0)
    ELSE LET rest == YearTotal(SubSeq(es, 2, Len(es)), y)
         IN  IF IsValid(es[1]) /\ es[1].year = y THEN Plus(es[1].value, rest) ELSE rest

Scenario1 ==
    <<Entry(Fin(2020), Fin(100)), Entry(Fin(2020), Fin(50)), Entry(Fin(2021), Fin(300))>>

Scenario2 ==
    <<Entry(Fin(2021), Fin(1000)), Entry(Fin(2022), Fin(1100)), Entry(Fin(2023), Fin(1210))>>

\* C1: after a call, the Normalized Series has one entry per year that carries
\* a valid input entry, and its value is the sum of the values of all valid
\* input entries of that year; for [{2020,100},{2020,50},{2021,300}] the
\* ratio is 2, spanYears is 1 and the growth is 1.0.
C1_DuplicateYearsSummed ==
    pc = "done" =>
        /\ {normalized[i].year : i \in 1..Len(normalized)} = ValidYears(entries)
        /\ \A i \in 1..Len(normalized) :
              normalized[i].value = YearTotal(entries, normalized[i].year)
        /\ entries = Scenario1 =>
              /\ normalized = <<Entry(Fin(2020), Fin(150)), Entry(Fin(2021), Fin(300))>>
              /\ ratio = Fin(2)
              /\ spanYears = Fin(1)
              /\ result = GrowthRate(1, 1)

C1_Witness ==
    /\ pc = "done"
    /\ entries = Scenario1
    /\ result = GrowthRate(1, 1)

\* C2: a call whose entries carry a valid value in fewer than 2 distinct
\* years returns null, whatever maxYears is.
C2_FewerThanTwoYearsIsNull ==
    (pc = "done" /\ Cardinality(ValidYears(entries)) < 2) => result = null

C2_Witness ==
    /\ pc = "done"
    /\ Cardinality(ValidYears(entries)) = 1
    /\ Cardinality({i \in 1..Len(entries) : IsValid(entries[i])}) >= 2
    /\ result = null

\* C3 as stated: entries that are all valid, all carry the same value and
\* cover at least 2 years give growth 0.
C3_Original ==
    ( /\ pc = "done"
      /\ \A i \in 1..Len(entries) : IsValid(entries[i])
      /\ \A i, j \in 1..Len(entries) : entries[i].value = entries[j].value
      /\ Cardinality(ValidYears(entries)) >= 2 )
    => result = GrowthRate(0, 1)

\* C3: when at least 2 years carry valid entries and every such year has the
\* same total of valid values, the growth is 0 (so entries with pairwise
\* distinct years that share one positive finite value give 0).
C3_EqualYearTotalsGiveZero ==
    ( /\ pc = "done"
      /\ Cardinality(ValidYears(entries)) >= 2
      /\ \A y1, y2 \in ValidYears(entries) :
            YearTotal(entries, y1) = YearTotal(entries, y2) )
    => result = GrowthRate(0, 1)

C3_Witness ==
    /\ pc = "done"
    /\ Len(entries) = 3
    /\ \A i \in 1..Len(entries) : IsValid(entries[i])
    /\ Cardinality(ValidYears(entries)) = 3
    /\ \A i, j \in 1..Len(entries) : entries[i].value = entries[j].value
    /\ result = GrowthRate(0, 1)

Permuted(es, f) == [i \in 1..Len(es) |-> es[f[i]]]

MaxYearsInt == IF maxYears = undefined THEN MAX_YEARS_DEFAULT ELSE maxYears.n

LastEntries(arr, n) == SubSeq(arr, IF Len(arr) > n THEN Len(arr) - n + 1 ELSE 1, Len(arr))

\* C5: with a Normalized Series of 2 or more entries and an integer (or
\* omitted) maxYears, the window is the last max(maxYears, 2) entries of the
\* series, it has at least 2 entries, and for maxYears < 2 the result is the
\* one for maxYears = 2.
C5_WindowAtLeastTwo ==
    ( /\ pc = "done"
      /\ Len(normalized) >= 2
      /\ (maxYears = undefined \/ (maxYears.k = "fin" /\ maxYears.d = 1)) )
    =>
        /\ usable = LastEntries(normalized, IF MaxYearsInt > 2 THEN MaxYearsInt ELSE 2)
        /\ Len(usable) >= 2
        /\ MaxYearsInt < 2 => result = computeCfsnGrowth(entries, Fin(2))

C5_Witness ==
    /\ pc = "done"
    /\ maxYears \in {Fin(-1), Fin(0), Fin(1)}
    /\ Len(normalized) = 3
    /\ Len(usable) = 2
    /\ usable[1] = normalized[2]
    /\ IsNumber(result)

\* C6: a call that returns a number g has spanYears = max(last.year -
\* first.year, windowLength - 1) and (1 + g)^spanYears = last.value /
\* first.value for the first and last entry of the window; the scenario
\* [{2021,1000},{2022,1100},{2023,1210}] with maxYears 5 has spanYears 2,
\* ratio 1.21 and g = 0.1.
C6_CompoundGrowthEquation ==
    (pc = "done" /\ IsNumber(result)) =>
        LET first == usable[1]
            last == usable[Len(usable)]
            diff == Minus(last.year, first.year)
            greater == IF Less(Fin(Len(usable) - 1), diff) THEN diff ELSE Fin(Len(usable) - 1)
            sp == greater.n
            e == sp \div result.root
        IN  /\ spanYears = greater
            /\ greater.d = 1
            /\ ratio = Frac(last.value.n * first.value.d, last.value.d * first.value.n)
            /\ sp % result.root = 0
            /\ IntPow(result.n, e) * first.value.n * last.value.d
                  = IntPow(result.d, e) * last.value.n * first.value.d
            /\ (entries = Scenario2 /\ maxYears = Fin(5)) =>
                  /\ usable = Scenario2
                  /\ spanYears = Fin(2)
                  /\ ratio = Frac(121, 100)
                  /\ result = GrowthRate(1, 10)

C6_Witness ==
    /\ pc = "done"
    /\ entries = Scenario2
    /\ maxYears = Fin(5)
    /\ result = GrowthRate(1, 10)

\* the entries with every value multiplied by c
Scaled(es, c) ==
    [i \in 1..Len(es) |->
        IF es[i] = null THEN null ELSE Entry(es[i].year, Times(es[i].value, c))]

ScaleFactors == {Frac(1, 2), Fin(3)}

\* C7: multiplying every value by the same positive constant gives the
\* result of the call.
C7_ScaleInvariant ==
    pc = "done" =>
        \A c \in ScaleFactors : computeCfsnGrowth(Scaled(entries, c), maxYears) = result

C7_Witness ==
    /\ pc = "done"
    /\ IsNumber(result)
    /\ result.root = 2
    /\ \E i, j \in 1..Len(entries) :
          i # j /\ IsValid(entries[i]) /\ IsValid(entries[j])
          /\ entries[i].year = entries[j].year

\* C8: the entries that are null or have a non-finite year, a non-finite
\* value or a value <= 0 can be removed without changing the result; the
\* lone entry {2020,-50} gives the empty Normalized Series and null.
C8_InvalidEntriesIgnored ==
    pc = "done" =>
        /\ computeCfsnGrowth(SelectSeq(entries, IsValid), maxYears) = result
        /\ entries = <<Entry(Fin(2020), Fin(-50))>> => (normalized = <<>> /\ result = null)

C8_Witness ==
    /\ pc = "done"
    /\ IsNumber(result)
    /\ \E i, j \in 1..Len(entries) :
          /\ IsValid(entries[i])
          /\ entries[j] = Entry(entries[i].year, Fin(-50))

\* C9: every call returns null or a finite number: no exception, no NaN, no
\* Infinity, whatever the entries and maxYears are.
C9_NullOrFiniteNumber ==
    pc = "done" => (result = null \/ IsNumber(result))

C9_Witness ==
    /\ pc = "done"
    /\ maxYears = NaN
    /\ \E i, j \in 1..Len(entries) :
          entries[i] = null /\ entries[j] # null /\ entries[j].value = Infinity
    /\ result = null

\* C10: the Normalized Series is strictly ascending by year (so its years are
\* pairwise distinct), all its values are > 0, and no call returns at the
\* re-check of first.value and last.value (line 44).
C10_NormalizedSeriesOrdered ==
    pc = "done" =>
        /\ \A i \in 1..Len(normalized) :
              /\ isFinite(normalized[i].year)
              /\ Less(Fin(0), normalized[i].value)
        /\ \A i, j \in 1..Len(normalized) :
              i < j => Less(normalized[i].year, normalized[j].year)
        /\ returnLine # 44

C10_Witness ==
    /\ pc = "done"
    /\ Len(entries) = 3
    /\ Len(normalized) = 2
    /\ IsValid(entries[1]) /\ IsValid(entries[2]) /\ IsValid(entries[3])
    /\ entries[1].year = Fin(2023)
    /\ entries[2].year = Fin(2020)
    /\ entries[3].year = Fin(2023)
    /\ returnLine = 62

(***************************************************************************)
(* formatGrowthPercentage (growth.ts lines 65-76)                          *)
(*                                                                         *)
(* A formatted percentage is a string; the strings are built digit by      *)
(* digit as Number.prototype.toFixed builds them.  Besides the exact       *)
(* fractions, a finite number can be a power of ten too large to be        *)
(* written out, sign * 10^exp, which is what makes growth * 100 overflow.  *)
(***************************************************************************)
RangeError == [k |-> "throw", n |-> 1, d |-> 1]

Str(s) == [k |-> "string", s |-> s]

\* the finite double sign * 10^exp, for exp >= 19
PowerOfTen(sign, exp) == [k |-> "fin", n |-> sign, d |-> 1, exp |-> exp]

IsPowerOfTen(x) == "exp" \in DOMAIN x

\* growth * 100 of a finite growth; beyond Number.MAX_VALUE, which is about
\* 1.797 * 10^308, it is +/-Infinity
TimesHundred(x) ==
    IF IsPowerOfTen(x)
    THEN IF x.exp + 2 > 308
         THEN (IF x.n < 0 THEN NegInfinity ELSE Infinity)
         ELSE PowerOfTen(x.n, x.exp + 2)
    ELSE Frac(x.n * 100, x.d)

\* Math.abs of a finite number
MathAbs(x) == [x EXCEPT !.n = Abs(x.n)]

\* String.prototype.padStart(len, "0")
RECURSIVE PadStart(_, _)
PadStart(s, len) == IF Len(s) >= len THEN s ELSE PadStart("0" \o s, len)

\* the integer n for which n / 10^f - x is closest to zero, the smaller one
\* on a tie
NearestMutTruncate(x, f) == (x.n * IntPow(10, f)) \div x.d

\* the integer n for which n / 10^f - x is closest to zero, the larger one
\* on a tie (x >= 0)
Nearest(x, f) ==
    LET scaled == x.n * IntPow(10, f)
    IN  (scaled \div x.d) + (IF 2 * (scaled % x.d) >= x.d THEN 1 ELSE 0)

\* Number.prototype.toFixed(fractionDigits) of a finite number
toFixed(x0, fd) ==
    LET f == ToIntegerOrInfinity(fd)
    IN  IF f.k # "fin" \/ f.n < 0 \/ f.n > 100 THEN RangeError
        ELSE IF IsPowerOfTen(x0)
        THEN Str((IF x0.n < 0 THEN "-" ELSE "") \o "1e+" \o ToString(x0.exp))
        ELSE LET x == MathAbs(x0)
                 n == Nearest(x, f.n)
                 scale == IntPow(10, f.n)
                 m == IF f.n = 0 THEN ToString(n)
                      ELSE ToString(n \div scale) \o "."
                               \o PadStart(ToString(n % scale), f.n)
             IN  Str((IF x0.n < 0 THEN "-" ELSE "") \o m)

\* line 74: percentage >= 0 ? "" : "-"
signOfMutPlus(percentage) == IF percentage.n >= 0 THEN "+" ELSE "-"

signOf(percentage) == IF percentage.n >= 0 THEN "" ELSE "-"

\* lines 66-75 without the sentinel guards of lines 67-73: null * 100 is 0,
\* undefined * 100 is NaN, NaN >= 0 is false, and toFixed of a non-finite
\* number is its name
formatGrowthPercentageMutNoGuard(g, fractionDigitsArg) ==
    LET fractionDigits == IF fractionDigitsArg = undefined THEN Fin(1)
                          ELSE fractionDigitsArg
        percentage == IF isFinite(g) THEN TimesHundred(g) ELSE ToNumber(g)
        sign == IF percentage.k # "nan" /\ percentage.n >= 0 THEN "" ELSE "-"
        digits == IF isFinite(percentage)
                  THEN toFixed(MathAbs(percentage), fractionDigits)
                  ELSE Str(IF percentage.k = "nan" THEN "NaN" ELSE "Infinity")
    IN  IF digits.k = "throw" THEN digits
        ELSE Str(sign \o digits.s \o "%")

\* lines 65-76; fractionDigits defaults to 1 when the argument is omitted
formatGrowthPercentage(g, fractionDigitsArg) ==
    LET fractionDigits == IF fractionDigitsArg = undefined THEN Fin(1)
                          ELSE fractionDigitsArg
    IN  IF g = null \/ ~isFinite(g) THEN null
        ELSE LET percentage == TimesHundred(g)
             IN  IF ~isFinite(percentage) THEN null
                 ELSE LET digits == toFixed(MathAbs(percentage), fractionDigits)
                      IN  IF digits.k = "throw" THEN digits
                          ELSE Str(signOf(percentage) \o digits.s \o "%")

(***************************************************************************)
(* The state machine: one call of formatGrowthPercentage by a caller       *)
(***************************************************************************)
\* the largest fractionDigits a caller passes, besides the out-of-range one
MaxDigits == 2

\* 0.123, -0.05 and 0.1 are the documented examples; the others round to
\* zero, round up to the next integer, lie on a tie or have no finite decimal
\* expansion
FiniteGrowths ==
    { Frac(123, 1000), Frac(-5, 100), Frac(1, 10), Fin(0), Fin(1), Fin(-1),
      Frac(-1, 2500), Frac(1, 2500), Frac(999, 1000), Frac(-999, 1000),
      Frac(1, 8), Frac(-1, 8), Frac(1, 3), Frac(-2, 3), Frac(199, 2000),
      Frac(5, 2), Frac(-7, 4) }

\* 10^19, whose percentage toFixed writes with an exponent, and +/-10^307,
\* whose percentage is not finite
HugeGrowths == {PowerOfTen(1, 19), PowerOfTen(1, 307), PowerOfTen(-1, 307)}

NonFiniteGrowths == {null, undefined, NaN, Infinity, NegInfinity}

GrowthDomain == FiniteGrowths \cup HugeGrowths \cup NonFiniteGrowths

\* omitted, 0..MaxDigits, and one more than toFixed accepts
DigitsDomain == {undefined} \cup {Fin(i) : i \in 0..MaxDigits} \cup {Fin(101)}

FormatInit ==
    /\ \E g \in GrowthDomain, d \in DigitsDomain : fmtGrowth = g /\ fmtDigits = d
    /\ formatted = undefined
    /\ fpc = "call"
    /\ OnlyFormat

\* the caller evaluates formatGrowthPercentage(fmtGrowth, fmtDigits)
Format ==
    /\ fpc = "call"
    /\ formatted' = formatGrowthPercentage(fmtGrowth, fmtDigits)
    /\ fpc' = "done"
    /\ UNCHANGED <<fmtGrowth, fmtDigits>>
    /\ UNCHANGED otherThanFormat

NextFormat == Format

SpecFormat == FormatInit /\ [][NextFormat]_vars

(***************************************************************************)
(* Properties of formatGrowthPercentage                                    *)
(***************************************************************************)
DigitChars == {"0", "1", "2", "3", "4", "5", "6", "7", "8", "9"}

DigitValue(c) ==
    CASE c = "1" -> 1 [] c = "2" -> 2 [] c = "3" -> 3 [] c = "4" -> 4
      [] c = "5" -> 5 [] c = "6" -> 6 [] c = "7" -> 7 [] c = "8" -> 8
      [] c = "9" -> 9 [] OTHER -> 0

CharAt(s, i) == SubSeq(s, i, i)

AllDigits(s) == \A i \in 1..Len(s) : CharAt(s, i) \in DigitChars

\* the number a string of decimal digits denotes
RECURSIVE DigitsValue(_)
DigitsValue(s) ==
    IF Len(s) = 0 THEN 0
    ELSE 10 * DigitsValue(SubSeq(s, 1, Len(s) - 1)) + DigitValue(CharAt(s, Len(s)))

\* s is: '-' exactly when g < 0 and no sign otherwise, then a decimal numeral
\* with at least one integer digit and exactly d fractional digits (and no
\* point when d = 0) whose value is within half a unit of the last digit of
\* |g * 100|, then '%'
IsSignedPercentage(s, g, d) ==
    LET neg == g.n < 0
        numeral == SubSeq(s, (IF neg THEN 2 ELSE 1), Len(s) - 1)
        intPart == IF d = 0 THEN numeral ELSE SubSeq(numeral, 1, Len(numeral) - d - 1)
        fracPart == SubSeq(numeral, Len(numeral) - d + 1, Len(numeral))
        units == DigitsValue(intPart) * IntPow(10, d) + DigitsValue(fracPart)
    IN  /\ Len(s) >= 2
        /\ CharAt(s, 1) # "+"
        /\ neg <=> CharAt(s, 1) = "-"
        /\ CharAt(s, Len(s)) = "%"
        /\ Len(numeral) >= (IF d = 0 THEN 1 ELSE d + 2)
        /\ d > 0 => CharAt(numeral, Len(numeral) - d) = "."
        /\ AllDigits(intPart)
        /\ AllDigits(fracPart)
        /\ Abs(2 * units * g.d - 200 * Abs(g.n) * IntPow(10, d)) <= g.d

\* the fractionDigits in force: 1 when the argument is omitted
DigitsInForce == IF fmtDigits = undefined THEN 1 ELSE fmtDigits.n

C12_SentinelPassthrough ==
    (fpc = "done" /\ ~isFinite(fmtGrowth)) =>
        /\ formatted = null
        /\ formatted.k # "string"

C12_Witness ==
    /\ fpc = "done"
    /\ fmtGrowth = null
    /\ fmtDigits = undefined
    /\ formatted = null

(***************************************************************************)
(* Several callers of computeCfsnGrowth and formatGrowthPercentage on one  *)
(* entries array.  Arrays are objects on a heap, a sequence indexed by     *)
(* reference; numbers and strings are values.  A call runs to completion   *)
(* before the next one starts, the calls of different callers in any       *)
(* order.                                                                  *)
(***************************************************************************)
\* the reference of the array the callers hold
EntriesRef == 1

RECURSIVE Reverse(_)
Reverse(arr) == IF Len(arr) = 0 THEN <<>> ELSE Append(Reverse(Tail(arr)), Head(arr))

\* the heap after computeCfsnGrowth(h[ref], m) when line 11 iterates over
\* entries.reverse(), which reverses the caller's array in place
HeapAfterCallMutReverseInPlace(h, ref, m) ==
    LET f == Run(h[ref], m)
        from == Append([h EXCEPT ![ref] = Reverse(@)], forEachEntry(h[ref]))
        mapped == Append(from, from[Len(from)])
        sorted == [mapped EXCEPT ![Len(mapped)] = sortByYear(@)]
    IN  IF f.returnLine = 32 THEN sorted ELSE Append(sorted, f.usable)

\* the heap after computeCfsnGrowth(h[ref], m): forEach (line 11) only reads
\* h[ref]; Array.from (line 24) and map (line 25) each allocate an array, sort
\* (line 26) orders the mapped one in place, and slice (line 35) allocates
\* the window unless the call has returned at line 32
HeapAfterCall(h, ref, m) ==
    LET f == Run(h[ref], m)
        from == Append(h, forEachEntry(h[ref]))
        mapped == Append(from, from[Len(from)])
        sorted == [mapped EXCEPT ![Len(mapped)] = sortByYear(@)]
    IN  IF f.returnLine = 32 THEN sorted ELSE Append(sorted, f.usable)

\* the number a result of computeCfsnGrowth over a span of one year is, as
\* an argument of formatGrowthPercentage
AsNumber(r) == IF r.k = "fin" THEN Frac(r.n - r.d, r.d) ELSE r

\* the longest array the callers share
MaxShared == 2

Callers == {"a", "b"}

\* entries of two years, so that every growth is rational; one of them is
\* skipped by line 16
SharedEntries ==
    {Entry(y, v) : y \in {Fin(2020), Fin(2021)}, v \in {Fin(50), Fin(100), Fin(-50)}}

CallerMaxYears == {undefined, Fin(1)}

CallerDigits == {undefined, Fin(0)}

CallersInit ==
    /\ \E es \in SeqsUpTo(SharedEntries, MaxShared) : given = es /\ heap = <<es>>
    /\ \E ms \in [Callers -> CallerMaxYears], ds \in [Callers -> CallerDigits] :
          callers = [c \in Callers |->
                        [maxYears |-> ms[c], fractionDigits |-> ds[c],
                         result |-> undefined, formatted |-> undefined,
                         pc |-> "compute"]]
    /\ OnlyCallers

\* caller c evaluates computeCfsnGrowth(entries, maxYears) on the shared array
Compute(c) ==
    /\ callers[c].pc = "compute"
    /\ heap' = HeapAfterCall(heap, EntriesRef, callers[c].maxYears)
    /\ callers' = [callers EXCEPT
                      ![c].result = computeCfsnGrowth(heap[EntriesRef], callers[c].maxYears),
                      ![c].pc = "format"]
    /\ UNCHANGED given
    /\ UNCHANGED otherThanCallers

\* caller c evaluates formatGrowthPercentage(result, fractionDigits); its
\* arguments and its result are values, so the heap stays as it is
FormatResult(c) ==
    /\ callers[c].pc = "format"
    /\ callers' = [callers EXCEPT
                      ![c].formatted = formatGrowthPercentage(AsNumber(callers[c].result),
                                                              callers[c].fractionDigits),
                      ![c].pc = "done"]
    /\ UNCHANGED <<heap, given>>
    /\ UNCHANGED otherThanCallers

NextCallers == \E c \in Callers : Compute(c) \/ FormatResult(c)

SpecCallers == CallersInit /\ [][NextCallers]_vars

\* C13: whatever calls the callers have completed, in whatever order, the
\* entries array they hold is as it was handed to them (same elements in the
\* same order), and each completed call has returned what the same call
\* returns when it runs alone on that array.
C13_SideEffectFree ==
    /\ heap[EntriesRef] = given
    /\ \A c \in Callers :
          /\ callers[c].pc \in {"format", "done"} =>
                callers[c].result = computeCfsnGrowth(given, callers[c].maxYears)
          /\ callers[c].pc = "done" =>
                callers[c].formatted =
                    formatGrowthPercentage(
                        AsNumber(computeCfsnGrowth(given, callers[c].maxYears)),
                        callers[c].fractionDigits)

\* both callers are done on an array that is not in year order, and they
\* formatted its growth with different digits
C13_Witness ==
    /\ \A c \in Callers : callers[c].pc = "done"
    /\ given = <<Entry(Fin(2021), Fin(100)), Entry(Fin(2020), Fin(50))>>
    /\ Len(heap) > 4
    /\ heap[EntriesRef] = given
    /\ callers["a"].formatted = Str("100.0%")
    /\ callers["b"].formatted = Str("100%")

(***************************************************************************)
(* EsopSeriesBuilder: buildEsopValueSeries of @/utils/esop, as its         *)
(* contract describes it (parse, group by year with the last record        *)
(* winning, sort ascending).  A record carries a year and two              *)
(* currency-formatted string fields, each of which may be missing.         *)
(***************************************************************************)
EsopRecord(y, fair, market) == [year |-> y, fairValue |-> fair, marketValue |-> market]

EsopSeriesPoint(y, fair, market) == [year |-> y, fairValue |-> fair, marketValue |-> market]

\* the string without its currency symbols and grouping separators
RECURSIVE StripCurrency(_)
StripCurrency(s) ==
    IF Len(s) = 0 THEN ""
    ELSE IF Head(s) \in {"₹", ","} THEN StripCurrency(Tail(s))
    ELSE Head(s) \o StripCurrency(Tail(s))

\* a field parsed without the test for a missing field: stripping a field
\* that is not a string raises TypeError
ParseFieldMutNoMissingCheck(field) ==
    IF field = undefined THEN TypeError
    ELSE LET cleaned == StripCurrency(field.s)
         IN  IF Len(cleaned) > 0 /\ AllDigits(cleaned) THEN Fin(DigitsValue(cleaned))
             ELSE Fin(0)

\* step 1: a currency-formatted string field as a raw number; a missing or
\* non-parseable field is 0
ParseField(field) ==
    IF field = undefined THEN Fin(0)
    ELSE LET cleaned == StripCurrency(field.s)
         IN  IF Len(cleaned) > 0 /\ AllDigits(cleaned) THEN Fin(DigitsValue(cleaned))
             ELSE Fin(0)

\* step 2 keeping the first record of a year
GroupSetMutFirstWins(byYear, point) ==
    IF \E i \in 1..Len(byYear) : byYear[i].year = point.year
    THEN byYear
    ELSE Append(byYear, point)

\* step 2: the point of a year is replaced by a later one of the same year
GroupSet(byYear, point) ==
    IF \E i \in 1..Len(byYear) : byYear[i].year = point.year
    THEN [i \in 1..Len(byYear) |->
            IF byYear[i].year = point.year THEN point ELSE byYear[i]]
    ELSE Append(byYear, point)

\* steps 1 and 2 over the records in input order
RECURSIVE GroupByYear(_)
GroupByYear(rs) ==
    IF Len(rs) = 0 THEN <<>>
    ELSE LET r == rs[Len(rs)]
         IN  GroupSet(GroupByYear(SubSeq(rs, 1, Len(rs) - 1)),
                      EsopSeriesPoint(r.year, ParseField(r.fairValue),
                                      ParseField(r.marketValue)))

\* steps 1-3; threw tells that parsing a field raised an error
buildEsopValueSeries(rs) ==
    LET byYear == GroupByYear(rs)
    IN  IF \E i \in 1..Len(byYear) :
              byYear[i].fairValue = TypeError \/ byYear[i].marketValue = TypeError
        THEN [threw |-> TRUE, series |-> <<>>]
        ELSE [threw |-> FALSE, series |-> StableSort(byYear)]

\* the longest array of records
MaxRecords == 3

EsopYears == {Fin(2020), Fin(2021)}

FairFields == {undefined, Str("₹1,200"), Str("500"), Str("n/a")}

MarketFields == {undefined, Str("₹2,000")}

RecordDomain ==
    {EsopRecord(y, f, m) : y \in EsopYears, f \in FairFields, m \in MarketFields}

EsopInit ==
    /\ records \in SeqsUpTo(RecordDomain, MaxRecords)
    /\ series = <<>>
    /\ epc = "call"
    /\ OnlyEsop

\* the caller evaluates buildEsopValueSeries(records)
BuildSeries ==
    /\ epc = "call"
    /\ \E r \in {buildEsopValueSeries(records)} :
          /\ series' = r.series
          /\ epc' = IF r.threw THEN "threw" ELSE "done"
    /\ UNCHANGED records
    /\ UNCHANGED otherThanEsop

NextEsop == BuildSeries

SpecEsop == EsopInit /\ [][NextEsop]_vars

\* the last record of year y in input order
LastOfYear(rs, y) ==
    rs[CHOOSE j \in 1..Len(rs) :
          rs[j].year = y /\ \A j2 \in (j + 1)..Len(rs) : rs[j2].year # y]

\* C14: the series has exactly one point per distinct year of the records,
\* in strictly ascending year order, and the fairValue and marketValue of a
\* point are those of the last record of its year in input order.
C14_OnePointPerYearLastWins ==
    epc = "done" =>
        /\ {series[i].year : i \in 1..Len(series)} = {records[j].year : j \in 1..Len(records)}
        /\ \A i, j \in 1..Len(series) : i < j => Less(series[i].year, series[j].year)
        /\ \A i \in 1..Len(series) :
              /\ series[i].fairValue = ParseField(LastOfYear(records, series[i].year).fairValue)
              /\ series[i].marketValue = ParseField(LastOfYear(records, series[i].year).marketValue)

\* 2021 comes twice and before 2020; its point is the one of the third record
C14_Witness ==
    /\ epc = "done"
    /\ records = <<EsopRecord(Fin(2021), Str("₹1,200"), undefined),
                   EsopRecord(Fin(2020), Str("500"), Str("₹2,000")),
                   EsopRecord(Fin(2021), Str("500"), Str("₹2,000"))>>
    /\ series = <<EsopSeriesPoint(Fin(2020), Fin(500), Fin(2000)),
                  EsopSeriesPoint(Fin(2021), Fin(500), Fin(2000))>>

\* a field is missing, or is not a numeral once the currency symbols and
\* the grouping separators are taken out
IsMissingOrUnparseable(field) ==
    \/ field = undefined
    \/ LET cleaned == StripCurrency(field.s)
       IN  Len(cleaned) = 0 \/ \E i \in 1..Len(cleaned) : CharAt(cleaned, i) \notin DigitChars

\* C15: no call raises an error; a point whose year's last record has a
\* missing or unparseable fair-value or market-value field carries 0 for
\* that field; the empty input gives the empty series.
C15_NeverRaises ==
    /\ epc # "threw"
    /\ epc = "done" =>
          /\ records = <<>> => series = <<>>
          /\ \A i \in 1..Len(series) :
                LET r == LastOfYear(records, series[i].year)
                IN  /\ IsMissingOrUnparseable(r.fairValue) => series[i].fairValue = Fin(0)
                    /\ IsMissingOrUnparseable(r.marketValue) => series[i].marketValue = Fin(0)

\* one record with an unparseable fair value and no market value
C15_Witness ==
    /\ epc = "done"
    /\ records = <<EsopRecord(Fin(2020), Str("n/a"), undefined)>>
    /\ series = <<EsopSeriesPoint(Fin(2020), Fin(0), Fin(0))>>

(***************************************************************************)
(* CurrencyFormatter: formatCurrencyCompact, formatCurrencyAxisTick and    *)
(* formatCurrencyRaw of @/utils/currency, as their contract describes      *)
(* them, in the Indian convention (thousand, lakh, crore).                 *)
(***************************************************************************)
\* the fallback string of a non-finite amount
CurrencyFallback == Str("₹0")

\* the largest unit that is not above the magnitude mag
UnitOf(mag) ==
    IF mag.n >= 10000000 * mag.d THEN [size |-> 10000000, suffix |-> " Cr"]
    ELSE IF mag.n >= 100000 * mag.d THEN [size |-> 100000, suffix |-> " L"]
    ELSE IF mag.n >= 1000 * mag.d THEN [size |-> 1000, suffix |-> " K"]
    ELSE [size |-> 1, suffix |-> ""]

\* the magnitude in units of u, rounded to f fractional digits
ScaledNumeral(mag, u, f) == toFixed(Frac(mag.n, mag.d * u.size), Fin(f))

\* the digits of a natural number with the grouping separators 3,2,2,...
RECURSIVE GroupPairs(_)
GroupPairs(digits) ==
    IF Len(digits) <= 2 THEN digits
    ELSE GroupPairs(SubSeq(digits, 1, Len(digits) - 2)) \o ","
             \o SubSeq(digits, Len(digits) - 1, Len(digits))

Grouped(digits) ==
    IF Len(digits) <= 3 THEN digits
    ELSE GroupPairs(SubSeq(digits, 1, Len(digits) - 3)) \o ","
             \o SubSeq(digits, Len(digits) - 2, Len(digits))

\* formatCompact without the fallback: a non-finite amount is written by name
formatCurrencyCompactMutNoFallback(x) ==
    IF x.k = "nan" THEN Str("₹NaN")
    ELSE IF x.k = "inf" THEN Str((IF x.n < 0 THEN "-" ELSE "") \o "₹Infinity")
    ELSE LET mag == MathAbs(x)
             u == UnitOf(mag)
         IN  Str((IF x.n < 0 THEN "-" ELSE "") \o "₹"
                     \o ScaledNumeral(mag, u, IF u.size = 1 THEN 0 ELSE 1).s \o u.suffix)

\* formatCompact: a leading minus for a negative amount, the currency
\* symbol, the magnitude in its unit with one fractional digit, the suffix
formatCurrencyCompact(x) ==
    IF ~isFinite(x) THEN CurrencyFallback
    ELSE LET mag == MathAbs(x)
             u == UnitOf(mag)
         IN  Str((IF x.n < 0 THEN "-" ELSE "") \o "₹"
                     \o ScaledNumeral(mag, u, IF u.size = 1 THEN 0 ELSE 1).s \o u.suffix)

\* formatAxisTick: the same scaling, no fractional digit
formatCurrencyAxisTick(x) ==
    IF ~isFinite(x) THEN CurrencyFallback
    ELSE LET mag == MathAbs(x)
             u == UnitOf(mag)
         IN  Str((IF x.n < 0 THEN "-" ELSE "") \o "₹"
                     \o ScaledNumeral(mag, u, 0).s \o u.suffix)

\* formatRaw: the whole amount with grouping separators
formatCurrencyRaw(x) ==
    IF ~isFinite(x) THEN CurrencyFallback
    ELSE Str((IF x.n < 0 THEN "-" ELSE "") \o "₹"
                 \o Grouped(ToString(Nearest(MathAbs(x), 0))))

\* the largest power of ten the amounts are multiples of
MaxScale == 6

FiniteAmounts ==
    {Fin(0), Frac(1, 2), Frac(-1, 2)}
        \cup {Fin(sg * m * IntPow(10, e)) : sg \in {1, -1}, m \in {1, 12, 125}, e \in 0..MaxScale}

NonFiniteAmounts == {NaN, Infinity, NegInfinity}

CurrencyInit ==
    /\ amount \in FiniteAmounts \cup NonFiniteAmounts
    /\ compact = undefined
    /\ axisTick = undefined
    /\ raw = undefined
    /\ OnlyCurrency

\* a summary card calls formatCurrencyCompact(amount)
FormatCompact ==
    /\ compact' = formatCurrencyCompact(amount)
    /\ UNCHANGED <<amount, axisTick, raw>>
    /\ UNCHANGED otherThanCurrency

\* a chart axis calls formatCurrencyAxisTick(amount)
FormatAxisTick ==
    /\ axisTick' = formatCurrencyAxisTick(amount)
    /\ UNCHANGED <<amount, compact, raw>>
    /\ UNCHANGED otherThanCurrency

\* a tooltip calls formatCurrencyRaw(amount)
FormatRaw ==
    /\ raw' = formatCurrencyRaw(amount)
    /\ UNCHANGED <<amount, compact, axisTick>>
    /\ UNCHANGED otherThanCurrency

NextCurrency == FormatCompact \/ FormatAxisTick \/ FormatRaw

SpecCurrency == CurrencyInit /\ [][NextCurrency]_vars

\* C16: whatever the amount (zero, negative, NaN, +/-Infinity), what a
\* formatter has returned is a string, never a thrown error, and for a
\* non-finite amount it is the one string the formatter returns for every
\* non-finite amount.
C16_TotalWithFallback ==
    /\ compact # undefined =>
          /\ compact.k = "string"
          /\ ~isFinite(amount) => \A x \in NonFiniteAmounts : compact = formatCurrencyCompact(x)
    /\ axisTick # undefined =>
          /\ axisTick.k = "string"
          /\ ~isFinite(amount) => \A x \in NonFiniteAmounts : axisTick = formatCurrencyAxisTick(x)
    /\ raw # undefined =>
          /\ raw.k = "string"
          /\ ~isFinite(amount) => \A x \in NonFiniteAmounts : raw = formatCurrencyRaw(x)

\* all three formatters have returned for -Infinity
C16_Witness ==
    /\ amount = NegInfinity
    /\ compact = CurrencyFallback
    /\ axisTick = CurrencyFallback
    /\ raw = CurrencyFallback

(***************************************************************************)
(* ApiClient (lib/api.ts): authenticated requests, token refresh, logout   *)
(* and login.  JavaScript runs one task at a time: an action is a call     *)
(* from the application or the arrival of a network response, together     *)
(* with every continuation (microtask) that becomes runnable by it.        *)
(* A token is a positive number, 0 is the null of localStorage.getItem and *)
(* of refreshPromise.                                                      *)
(***************************************************************************)
\* the number of authenticated requests the pages make
MaxRequests == 2

\* the number of logins after the one the session starts with
MaxLogins == 1

Requests == 1..MaxRequests

\* the statuses the server answers an authenticated request with
Statuses == {200, 401}

\* lines 200-203 without line 204: the stored user is left behind
clearTokensMutKeepUser(st) == [st EXCEPT !.access_token = 0, !.refresh_token = 0]

\* lines 200-205: clearTokens()
clearTokens(st) == [st EXCEPT !.access_token = 0, !.refresh_token = 0, !.user = 0]

\* lines 329-331: isAuthenticated()
isAuthenticated(st) == st.access_token # 0

\* line 107 without the test: a refresh is started at every 401
MustJoinRefreshMutNever(refreshing, promise) == FALSE

\* line 107: a refresh is under way and its promise is at hand
MustJoinRefresh(refreshing, promise) == refreshing /\ promise # 0

\* line 164 applied to every response instead of the first one only
IsRefreshableMutEveryAttempt(sent, status) == status = 401

\* line 164: the test of response.status is made on the first response only
IsRefreshable(sent, status) == sent = 1 /\ status = 401

\* the requests after promise p has settled: each handleUnauthorized that
\* awaited it returns ok (lines 109-113, 120-133), and on true lines 166-174
\* put the stored token in the Authorization header and send the retry
AfterRefresh(reqs, p, ok, st) ==
    [r \in DOMAIN reqs |->
        IF reqs[r].pc = "awaitRefresh" /\ reqs[r].awaiting = p
        THEN IF ok
             THEN [reqs[r] EXCEPT !.pc = "retry",
                                  !.header = IF st.access_token # 0 THEN st.access_token ELSE @,
                                  !.sent = @ + 1]
             ELSE [reqs[r] EXCEPT !.pc = "done"]
        ELSE reqs[r]]

\* the session starts logged in, with no request made
ApiInit ==
    /\ storage = [access_token |-> 1, refresh_token |-> 1, user |-> 1]
    /\ isRefreshing = FALSE
    /\ refreshPromise = 0
    /\ posting = {}
    /\ parsing = {}
    /\ nextPromise = 1
    /\ issued = 1
    /\ stored = {}
    /\ requests = [r \in Requests |->
                      [pc |-> "idle", header |-> 0, awaiting |-> 0, sent |-> 0,
                       response |-> 0, refreshed |-> 0]]
    /\ logoutPc = "idle"
    /\ logins = 0
    /\ OnlyApi

\* lines 339-353 and 161: fetchWithAuth puts the stored access token in the
\* Authorization header and fetchWithTokenRefresh sends the request
StartRequest(r) ==
    /\ requests[r].pc = "idle"
    /\ requests' = [requests EXCEPT ![r].pc = "first",
                                    ![r].header = storage.access_token,
                                    ![r].sent = 1]
    /\ UNCHANGED <<storage, isRefreshing, refreshPromise, posting, parsing,
                   nextPromise, issued, stored, logoutPc, logins>>
    /\ UNCHANGED otherThanApi

\* lines 161-177 and 105-140: the response of request r arrives.  A 401 on
\* the first response enters handleUnauthorized, which awaits the refresh
\* under way, or starts one; without a refresh token performTokenRefresh
\* throws before it fetches, and the catch clause clears the tokens
ReceiveResponse(r, status) ==
    /\ requests[r].pc \in {"first", "retry"}
    /\ IF ~IsRefreshable(requests[r].sent, status)
       THEN /\ requests' = [requests EXCEPT ![r].pc = "done", ![r].response = status]
            /\ UNCHANGED <<storage, isRefreshing, refreshPromise, posting, nextPromise>>
       ELSE IF MustJoinRefresh(isRefreshing, refreshPromise)
       THEN /\ requests' = [requests EXCEPT ![r].pc = "awaitRefresh",
                                            ![r].response = status,
                                            ![r].awaiting = refreshPromise,
                                            ![r].refreshed = @ + 1]
            /\ UNCHANGED <<storage, isRefreshing, refreshPromise, posting, nextPromise>>
       ELSE IF storage.refresh_token = 0
       THEN /\ requests' = [requests EXCEPT ![r].pc = "done",
                                            ![r].response = status,
                                            ![r].awaiting = nextPromise,
                                            ![r].refreshed = @ + 1]
            /\ isRefreshing' = FALSE
            /\ refreshPromise' = 0
            /\ storage' = clearTokens(storage)
            /\ nextPromise' = nextPromise + 1
            /\ UNCHANGED posting
       ELSE /\ requests' = [requests EXCEPT ![r].pc = "awaitRefresh",
                                            ![r].response = status,
                                            ![r].awaiting = nextPromise,
                                            ![r].refreshed = @ + 1]
            /\ isRefreshing' = TRUE
            /\ refreshPromise' = nextPromise
            /\ posting' = posting \cup {nextPromise}
            /\ nextPromise' = nextPromise + 1
            /\ UNCHANGED storage
    /\ UNCHANGED <<parsing, issued, stored, logoutPc, logins>>
    /\ UNCHANGED otherThanApi

\* lines 142-150 and 124-133: the response of the refresh POST of promise p
\* arrives; when it is not ok the promise is rejected, the handleUnauthorized
\* that started it resets the fields and clears the tokens, and every
\* request that awaited it ends with its 401
RefreshResponds(p, ok) ==
    /\ p \in posting
    /\ posting' = posting \ {p}
    /\ IF ok
       THEN /\ parsing' = parsing \cup {p}
            /\ UNCHANGED <<storage, isRefreshing, refreshPromise, requests>>
       ELSE /\ isRefreshing' = FALSE
            /\ refreshPromise' = 0
            /\ storage' = clearTokens(storage)
            /\ requests' = AfterRefresh(requests, p, FALSE, storage)
            /\ UNCHANGED parsing
    /\ UNCHANGED <<nextPromise, issued, stored, logoutPc, logins>>
    /\ UNCHANGED otherThanApi

\* lines 152-154, 120-123 and 166-174: the body of the refresh response is
\* read; performTokenRefresh stores the new access token and resolves, the
\* starter resets the fields, and every request that awaited the promise
\* sends its retry
RefreshParsed(p) ==
    /\ p \in parsing
    /\ parsing' = parsing \ {p}
    /\ issued' = issued + 1
    /\ storage' = [storage EXCEPT !.access_token = issued + 1]
    /\ stored' = stored \cup {<<p, issued + 1>>}
    /\ isRefreshing' = FALSE
    /\ refreshPromise' = 0
    /\ requests' = AfterRefresh(requests, p, TRUE, storage')
    /\ UNCHANGED <<posting, nextPromise, logoutPc, logins>>
    /\ UNCHANGED otherThanApi

\* lines 276-281: logout() sends its POST
StartLogout ==
    /\ logoutPc = "idle"
    /\ logoutPc' = "posting"
    /\ UNCHANGED <<storage, isRefreshing, refreshPromise, posting, parsing,
                   nextPromise, issued, stored, requests, logins>>
    /\ UNCHANGED otherThanApi

\* lines 282-286: the POST of logout() settles, either way the finally
\* clause clears the tokens, and logout() resolves
LogoutSettles ==
    /\ logoutPc = "posting"
    /\ storage' = clearTokens(storage)
    /\ logoutPc' = "resolved"
    /\ UNCHANGED <<isRefreshing, refreshPromise, posting, parsing, nextPromise,
                   issued, stored, requests, logins>>
    /\ UNCHANGED otherThanApi

\* lines 207-229: a login made after the logout succeeds and stores its
\* tokens
LoginSucceeds ==
    /\ logoutPc = "resolved"
    /\ logins < MaxLogins
    /\ logins' = logins + 1
    /\ issued' = issued + 1
    /\ storage' = [access_token |-> issued + 1, refresh_token |-> issued + 1,
                   user |-> issued + 1]
    /\ logoutPc' = "idle"
    /\ UNCHANGED <<isRefreshing, refreshPromise, posting, parsing, nextPromise,
                   stored, requests>>
    /\ UNCHANGED otherThanApi

NextApi ==
    \/ \E r \in Requests : StartRequest(r)
    \/ \E r \in Requests, status \in Statuses : ReceiveResponse(r, status)
    \/ \E p \in posting, ok \in BOOLEAN : RefreshResponds(p, ok)
    \/ \E p \in parsing : RefreshParsed(p)
    \/ StartLogout
    \/ LogoutSettles
    \/ LoginSucceeds

SpecApi == ApiInit /\ [][NextApi]_vars

\* C17: at most one refresh POST started by handleUnauthorized is
\* outstanding at any time, and every request that is waiting in
\* handleUnauthorized awaits that one refresh: the promise in refreshPromise.
C17_SingleRefreshInFlight ==
    /\ Cardinality(posting \cup parsing) <= 1
    /\ \A r \in Requests :
          requests[r].pc = "awaitRefresh" =>
              /\ isRefreshing
              /\ requests[r].awaiting = refreshPromise
              /\ requests[r].awaiting \in posting \cup parsing

\* both requests got 401 and await the one refresh POST
C17_Witness ==
    /\ \A r \in Requests : requests[r].pc = "awaitRefresh"
    /\ Cardinality(posting) = 1
    /\ requests[1].awaiting = requests[2].awaiting

\* C18: once logout() has resolved and no login has succeeded since, there
\* is no access token in storage: isAuthenticated() is false.
C18_LoggedOutStaysLoggedOut ==
    logoutPc = "resolved" => ~isAuthenticated(storage)

\* C20: a request is sent at most twice and enters handleUnauthorized at
\* most once; it is sent a second time exactly when the refresh it awaited
\* succeeded, with the access token that refresh stored in its Authorization
\* header; a 401 on the retry ends the request.
C20_AtMostOneRetry ==
    \A r \in Requests :
        /\ requests[r].sent <= 2
        /\ requests[r].refreshed <= 1
        /\ requests[r].sent = 2 <=>
               /\ requests[r].pc \in {"retry", "done"}
               /\ \E t \in 1..issued : <<requests[r].awaiting, t>> \in stored
        /\ requests[r].sent = 2 => <<requests[r].awaiting, requests[r].header>> \in stored

\* a request that was retried after a refresh and got 401 again is done
C20_Witness ==
    \E r \in Requests :
        /\ requests[r].pc = "done"
        /\ requests[r].sent = 2
        /\ requests[r].response = 401
        /\ requests[r].header = 2

(***************************************************************************)
(* The id-parameterised fetch hooks of hooks/useDataApi.ts.  A render with *)
(* a new id runs the effect, which starts a fetch; a fetch that settles    *)
(* calls setState.  The data of an id is written as the id itself, the     *)
(* absent id as "undefined" and no data as "null".                         *)
(***************************************************************************)
\* the number of times the parent changes the id after mounting
MaxChanges == 2

Hooks == {"useDirectorsDropdown", "useCompanyDetails"}

Ids == {"c1", "c2", "undefined"}

\* useCompanyDetails lines 278-281: without an id the effect sets the empty
\* state and returns; useDirectorsDropdown (lines 46-57) fetches in any case
SkipsFetch(h, id) == h = "useCompanyDetails" /\ id = "undefined"

\* lines 40-44 and 273-277: the state of useState at the first render
InitialState(h, id) ==
    [data |-> "null",
     loading |-> IF h = "useCompanyDetails" THEN id # "undefined" ELSE TRUE,
     error |-> FALSE]

\* the state the effect of a render with id leaves, and the fetches after it
\* has run as effect number n
StateAfterEffect(h, id, st) ==
    IF SkipsFetch(h, id) THEN [data |-> "null", loading |-> FALSE, error |-> FALSE]
    ELSE st

InflightAfterEffect(h, id, fs, n) ==
    IF SkipsFetch(h, id) THEN fs ELSE fs \cup {[n |-> n, id |-> id]}

\* the hook is mounted with some id and its first effect has run
HookInit ==
    /\ hook \in Hooks
    /\ companyId \in Ids
    /\ state = StateAfterEffect(hook, companyId, InitialState(hook, companyId))
    /\ inflight = InflightAfterEffect(hook, companyId, {}, 1)
    /\ started = 1
    /\ OnlyHook

\* lines 46-57 and 278-295: the parent renders the hook with another id; the
\* dependency [companyId] has changed, so the effect runs again.  It has no
\* cleanup: the fetches of earlier renders stay outstanding
Rerender(id) ==
    /\ started <= MaxChanges
    /\ id # companyId
    /\ companyId' = id
    /\ started' = started + 1
    /\ state' = StateAfterEffect(hook, id, state)
    /\ inflight' = InflightAfterEffect(hook, id, inflight, started + 1)
    /\ UNCHANGED hook
    /\ UNCHANGED otherThanHook

\* lines 48-53 and 284-289: the fetch f settles and fetchData calls setState
\* with its data, or with the error
FetchSettles(f, ok) ==
    /\ f \in inflight
    /\ inflight' = inflight \ {f}
    /\ state' = IF ok THEN [data |-> f.id, loading |-> FALSE, error |-> FALSE]
                ELSE [data |-> "null", loading |-> FALSE, error |-> TRUE]
    /\ UNCHANGED <<hook, companyId, started>>
    /\ UNCHANGED otherThanHook

NextHook ==
    \/ \E id \in Ids : Rerender(id)
    \/ \E f \in inflight, ok \in BOOLEAN : FetchSettles(f, ok)

SpecHook == HookInit /\ [][NextHook]_vars

\* C19: when every fetch has settled, the data the hook holds, if any, is
\* the response of the fetch for the latest id, not of a fetch started for
\* an earlier id.
C19_LatestIdWins ==
    (inflight = {} /\ state.data # "null") => state.data = companyId

(***************************************************************************)
(* Further properties of the ApiClient                                     *)
(***************************************************************************)
\* the step in which the refresh of promise p fails: its POST is answered
\* and its body is not read
RefreshRejected(p) == p \in posting /\ p \notin posting' /\ p \notin parsing'

\* the step in which performTokenRefresh throws for want of a refresh token:
\* a promise is made and no POST is sent
RefreshThrew == nextPromise' # nextPromise /\ posting' = posting

NoTokensStored(st) == st.access_token = 0 /\ st.refresh_token = 0 /\ st.user = 0

\* C21: in a step in which the refresh started by handleUnauthorized fails
\* (no refresh token, or a response that is not ok), access_token,
\* refresh_token and user leave the storage, isRefreshing becomes false and
\* refreshPromise null, and every request that awaited the refresh ends with
\* the 401 it had received, sent once.
C21_FailedRefreshClearsSession ==
    [][ /\ \A p \in posting :
              RefreshRejected(p) =>
                  /\ NoTokensStored(storage')
                  /\ ~isRefreshing' /\ refreshPromise' = 0
                  /\ \A r \in Requests :
                        (requests[r].pc = "awaitRefresh" /\ requests[r].awaiting = p) =>
                            /\ requests'[r].pc = "done"
                            /\ requests'[r].response = 401
                            /\ requests'[r].sent = 1
        /\ RefreshThrew =>
              /\ NoTokensStored(storage')
              /\ ~isRefreshing' /\ refreshPromise' = 0
              /\ \A r \in Requests :
                    requests'[r] # requests[r] =>
                        /\ requests'[r].pc = "done"
                        /\ requests'[r].response = 401
                        /\ requests'[r].sent = 1
      ]_vars

\* both requests awaited the refresh of the first promise, it failed while
\* nobody had logged out, and both ended with their 401, sent once
C21_Witness ==
    /\ \A r \in Requests :
          /\ requests[r].pc = "done"
          /\ requests[r].awaiting = 1
          /\ requests[r].sent = 1
          /\ requests[r].response = 401
    /\ logoutPc = "idle"
    /\ NoTokensStored(storage)
    /\ ~isRefreshing /\ refreshPromise = 0

(***************************************************************************)
(* Further properties of computeCfsnGrowth                                 *)
(***************************************************************************)

IsInteger(x) == x.k = "fin" /\ x.d = 1

\* the valid entries of the call all have integer years
IntegerYears == \A y \in ValidYears(entries) : IsInteger(y)

\* the call reached line 40: there is a window of 2 or more entries
HasWindow == pc = "done" /\ returnLine \notin {32, 37}

\* C22: for entries with integer years, every window has
\* last.year - first.year >= window length - 1 >= 1, so the span is
\* last.year - first.year (the length fallback of line 47 changes nothing)
\* and the call never returns at the spanYears <= 0 guard of line 49.
C22_IntegerYearsSpan ==
    (HasWindow /\ IntegerYears) =>
        LET first == usable[1]
            last == usable[Len(usable)]
            diff == Minus(last.year, first.year)
        IN  /\ Len(usable) - 1 >= 1
            /\ ~Less(diff, Fin(Len(usable) - 1))
            /\ returnLine # 49
            /\ spanYears = diff

\* a window of merged years next to each other, where the difference of the
\* years equals the fallback
C22_Witness ==
    /\ HasWindow /\ IntegerYears
    /\ Len(entries) = 3 /\ entries[1].year = entries[2].year
    /\ Len(usable) = 2
    /\ spanYears = Fin(1)
    /\ returnLine = 62

\* the entries of es without the one at index i
RemoveAt(es, i) == SubSeq(es, 1, i - 1) \o SubSeq(es, i + 1, Len(es))

\* the last max(maxYears, 2) entries of the Normalized Series
LastK == LastEntries(normalized, IF MaxYearsInt > 2 THEN MaxYearsInt ELSE 2)

\* the valid entry at index i of the call has a year before the window
IsEarlier(i) == IsValid(entries[i]) /\ Less(entries[i].year, LastK[1].year)

\* the valid entry at index i of the call has a year strictly inside the window
IsInside(i) ==
    /\ IsValid(entries[i])
    /\ Less(LastK[1].year, entries[i].year)
    /\ Less(entries[i].year, LastK[Len(LastK)].year)

\* C24: with max(maxYears, 2) or more entries in the Normalized Series, the
\* result stays the same when an entry of a year before the window is
\* added, removed or changed, and when the value of an entry strictly
\* inside the window is changed.
C24_OnlyFirstAndLastMatter ==
    ( /\ pc = "done"
      /\ (maxYears = undefined \/ (maxYears.k = "fin" /\ maxYears.d = 1))
      /\ Len(normalized) >= 2
      /\ Len(normalized) >= MaxYearsInt )
    =>
        /\ \A e \in ValidEntries :
              Less(e.year, LastK[1].year) =>
                  /\ computeCfsnGrowth(Append(entries, e), maxYears) = result
                  /\ \A i \in 1..Len(entries) :
                        IsEarlier(i) =>
                            computeCfsnGrowth([entries EXCEPT ![i] = e], maxYears) = result
        /\ \A i \in 1..Len(entries) :
              IsEarlier(i) => computeCfsnGrowth(RemoveAt(entries, i), maxYears) = result
        /\ \A i \in 1..Len(entries), v \in Values \cup {Fin(7)} :
              IsInside(i) =>
                  computeCfsnGrowth([entries EXCEPT ![i].value = v], maxYears) = result

\* a window of 3 entries after an earlier year, with growth other than 0
C24_Witness ==
    /\ pc = "done"
    /\ maxYears = Fin(3)
    /\ Len(normalized) = 4
    /\ Len(usable) = 3
    /\ \E i, j \in 1..Len(entries) : IsEarlier(i) /\ IsInside(j)
    /\ IsNumber(result)
    /\ result # GrowthRate(0, 1)

(***************************************************************************)
(* computeCfsnGrowth on values of very different magnitudes                *)
(***************************************************************************)
\* 2^27, 2^28, 2^29 and 1, 2^-27, 2^-28, 2^-29
Bigs == {Fin(134217728), Fin(268435456), Fin(536870912)}
Smalls == {Fin(1), Frac(1, 134217728), Frac(1, 268435456), Frac(1, 536870912)}

SkippedEntries == {null, Entry(Fin(2021), Fin(0)), Entry(NaN, Fin(100))}

\* a big value in 2020 and a small one in 2021, in both orders of the array
\* and next to a skipped entry; the value 1 in 2020 and a big one in 2021
MagnitudeSeqs ==
    UNION {{<<b, t>>, <<t, b>>} \cup {<<x, b, t>> : x \in SkippedEntries}
                \cup {<<b, t, x>> : x \in SkippedEntries} :
              b \in {Entry(Fin(2020), v) : v \in Bigs},
              t \in {Entry(Fin(2021), v) : v \in Smalls}}
        \cup {<<Entry(Fin(2020), Fin(1)), Entry(Fin(2021), v)>> : v \in Bigs}
        \cup {<<Entry(Fin(2020), v), Entry(Fin(2021), v)>> : v \in Bigs \cup Smalls}

MagnitudeCalls ==
    (MagnitudeSeqs \X MaxYearsDomain)
        \cup (SeqsUpTo(ValidEntries, 2) \X MaxYearsDomain)
        \cup ScenarioCalls

InitMagnitudes ==
    /\ \E c \in MagnitudeCalls : entries = c[1] /\ maxYears = c[2]
    /\ pc = "call"
    /\ normalized = <<>>
    /\ usable = <<>>
    /\ spanYears = undefined
    /\ ratio = undefined
    /\ result = undefined
    /\ returnLine = 0
    /\ OnlyGrowth

SpecMagnitudes == InitMagnitudes /\ [][Next]_vars

\* -1, 0 or 1 as the finite number a is less than, equal to or greater than b
\* (by whole parts first: the cross products of a big and a small number do
\* not fit)
ValueOrder(a, b) ==
    IF a.n \div a.d < b.n \div b.d THEN -1
    ELSE IF a.n \div a.d > b.n \div b.d THEN 1
    ELSE IF a.n * b.d < b.n * a.d THEN -1
    ELSE IF a.n * b.d > b.n * a.d THEN 1
    ELSE 0

\* the sign of the growth g = (n/d)^(1/root) - 1
GrowthSign(g) ==
    IF IsInFactors(g) THEN -1
    ELSE IF g.n > g.d THEN 1
    ELSE IF g.n < g.d THEN -1
    ELSE 0

\* C29 as stated: a number g that is returned has g > -1 and the sign of
\* last.value - first.value.
C29_Original ==
    (pc = "done" /\ IsNumber(result)) =>
        /\ result.n > 0
        /\ GrowthSign(result) = ValueOrder(usable[Len(usable)].value, usable[1].value)

\* C29: a number g that is returned has g >= -1, with g = -1 only for a
\* ratio last.value / first.value of 2^-54 at most; g >= 0 when last.value
\* is greater than first.value, g = 0 when they are equal, g <= 0 when it
\* is less.
C29_SignFollowsValues ==
    (pc = "done" /\ IsNumber(result)) =>
        LET order == ValueOrder(usable[Len(usable)].value, usable[1].value)
        IN  /\ result.n >= 0
            /\ result.n = 0 => IsInFactors(ratio)
            /\ order = 1 => GrowthSign(result) >= 0
            /\ order = 0 => GrowthSign(result) = 0
            /\ order = -1 => GrowthSign(result) <= 0

\* the values 2^27 and 2^-27 one year apart: the ratio is 2^-54 and g is -1
C29_Witness ==
    /\ pc = "done"
    /\ Len(usable) = 2
    /\ usable[1].value = Fin(134217728)
    /\ usable[2].value = Frac(1, 134217728)
    /\ IsInFactors(ratio)
    /\ IsNumber(result)
    /\ result.n = 0

(***************************************************************************)
(* computeCAGR and the Compensation Summary of DirectorDetailsSection      *)
(* (src/frontend/src/components/DirectorDetailsSection.tsx).  A record's   *)
(* compensation string is represented by the number parseInt reads from    *)
(* it (NaN when it reads none), a missing one by undefined.                *)
(***************************************************************************)

\* growth.ts lines 82-84 with the whole series as the window
computeCAGRMutWholeSeries(es) == computeCfsnGrowth(es, Infinity)

\* growth.ts lines 82-84
computeCAGR(es) == computeCfsnGrowth(es, undefined)

\* DirectorDetailsSection.tsx lines 47-55
parseCurrencyValue(value) ==
    IF value = undefined THEN Fin(0)
    ELSE IF isFinite(value) THEN value ELSE Fin(0)

\* lines 146-151 and 156-161: sortedRecords.map(record => ({year, value}))
RECURSIVE toEntries(_)
toEntries(recs) ==
    IF Len(recs) = 0 THEN <<>>
    ELSE <<Entry(recs[1].year, parseCurrencyValue(recs[1].compensation))>>
            \o toEntries(Tail(recs))

MaxSummaryYears == 6
SummaryYears == 1..MaxSummaryYears
Compensations == {undefined, Fin(50), Fin(100)}

\* the director has no record of a year
NoRecord == [k |-> "none"]

\* the records of the years of ys that have one, in ascending order of year
RECURSIVE RecordsOf(_, _)
RecordsOf(f, y) ==
    IF y > MaxSummaryYears THEN <<>>
    ELSE (IF f[y] = NoRecord THEN <<>>
          ELSE <<[year |-> Fin(2017 + y), compensation |-> f[y]]>>)
            \o RecordsOf(f, y + 1)

\* lines 139-141: a director's records, sorted by year
SortedRecordsDomain ==
    {RecordsOf(f, 1) : f \in [SummaryYears -> Compensations \cup {NoRecord}]}

SummaryInit ==
    /\ sortedRecords \in SortedRecordsDomain
    /\ cagrValue = null
    /\ growthRate = null
    /\ summaryPc = "render"
    /\ OnlySummary

\* lines 138-161: the summary computes the CAGR and the growth rate
Summarize ==
    /\ summaryPc = "render"
    /\ cagrValue' = computeCAGR(toEntries(sortedRecords))
    /\ growthRate' = computeCfsnGrowth(toEntries(sortedRecords), undefined)
    /\ summaryPc' = "done"
    /\ UNCHANGED sortedRecords
    /\ UNCHANGED otherThanSummary

NextSummary == Summarize

SpecSummary == SummaryInit /\ [][NextSummary]_vars

\* C23: computeCAGR(entries) is computeCfsnGrowth(entries, 5): the CAGR and
\* the growth rate of the Compensation Summary are the same number, and it
\* is the growth over at most the last 5 entries of the Normalized Series.
C23_CagrIsFiveYearGrowth ==
    summaryPc = "done" =>
        LET es == toEntries(sortedRecords)
        IN  /\ cagrValue = computeCfsnGrowth(es, Fin(5))
            /\ cagrValue = growthRate
            /\ cagrValue = computeCfsnGrowth(LastEntries(sanitizeEntries(es), 5), Infinity)

\* a series of 6 years whose growth over the whole series is another number
C23_Witness ==
    /\ summaryPc = "done"
    /\ Len(sanitizeEntries(toEntries(sortedRecords))) = 6
    /\ IsNumber(cagrValue)
    /\ cagrValue # computeCfsnGrowth(toEntries(sortedRecords), Infinity)

(***************************************************************************)
(* EsopValueChart (src/frontend/src/components/charts/EsopValueChart.tsx): *)
(* one mounted instance, rendered again when its parent passes a series    *)
(* or when a tooltip handler sets its state.                               *)
(***************************************************************************)
\* line 21: Math.max(...series.map(point => Math.max(point.fairValue, point.marketValue)))
RECURSIVE maxValueOf(_)
maxValueOf(s) ==
    IF Len(s) = 0 THEN NegInfinity
    ELSE MathMax(MathMax(s[1].fairValue, s[1].marketValue), maxValueOf(Tail(s)))

\* lines 13 and 22 with maxValue < 0 as the second test
IsUnavailableMutStrict(s) == Len(s) = 0 \/ Less(maxValueOf(s), Fin(0))

\* lines 13 and 22: the two tests that return the placeholder
IsUnavailable(s) == Len(s) = 0 \/ LeqZero(maxValueOf(s))

\* lines 14-18 and 23-27
Placeholder == [kind |-> "placeholder", axes |-> 0, ticks |-> FALSE, bars |-> 0]

\* lines 68-200: the two axis lines, the ticks, and one bar for each point
Chart(s) == [kind |-> "chart", axes |-> 2, ticks |-> TRUE, bars |-> Len(s)]

\* lines 12-68: what a render returns and the hooks it calls on the way
EsopValueChart(s) ==
    IF IsUnavailable(s)
    THEN [output |-> Placeholder, hooks |-> <<>>]
    ELSE [output |-> Chart(s), hooks |-> <<"useState">>]

MaxRenders == 3
MaxPoints == 2
ChartYears == {Fin(2020), Fin(2021)}
ChartValues == {Fin(-5), Fin(0), Fin(5)}

\* series as buildEsopValueSeries returns them: ascending, one point for a year
SeriesDomain ==
    {s \in SeqsUpTo({EsopSeriesPoint(y, f, m) : y \in ChartYears,
                                                 f \in ChartValues, m \in ChartValues},
                    MaxPoints) :
        \A i \in 1..(Len(s) - 1) : Less(s[i].year, s[i + 1].year)}

\* the mounting render
ChartInit ==
    /\ chartSeries \in SeriesDomain
    /\ chartOutput = EsopValueChart(chartSeries).output
    /\ hookCalls = EsopValueChart(chartSeries).hooks
    /\ mountHookCalls = EsopValueChart(chartSeries).hooks
    /\ hovered = null
    /\ chartRenders = 1
    /\ OnlyChart

\* the parent renders the mounted instance with the series s; a render that
\* calls no hook leaves what becomes of the state to React
RenderChart(s) ==
    /\ chartRenders < MaxRenders
    /\ chartSeries' = s
    /\ chartOutput' = EsopValueChart(s).output
    /\ hookCalls' = EsopValueChart(s).hooks
    /\ hovered' \in (IF EsopValueChart(s).hooks = <<>> THEN {hovered, null} ELSE {hovered})
    /\ chartRenders' = chartRenders + 1
    /\ UNCHANGED mountHookCalls
    /\ UNCHANGED otherThanChart

\* lines 56-64, 169-171: the pointer enters the bar of point i
showTooltip(i) ==
    /\ chartOutput.kind = "chart"
    /\ i \in 1..Len(chartSeries)
    /\ chartRenders < MaxRenders
    /\ hovered' = chartSeries[i]
    /\ chartOutput' = EsopValueChart(chartSeries).output
    /\ hookCalls' = EsopValueChart(chartSeries).hooks
    /\ chartRenders' = chartRenders + 1
    /\ UNCHANGED <<chartSeries, mountHookCalls>>
    /\ UNCHANGED otherThanChart

\* lines 66, 170-172: the pointer leaves a bar
hideTooltip ==
    /\ chartOutput.kind = "chart"
    /\ hovered # null
    /\ chartRenders < MaxRenders
    /\ hovered' = null
    /\ chartOutput' = EsopValueChart(chartSeries).output
    /\ hookCalls' = EsopValueChart(chartSeries).hooks
    /\ chartRenders' = chartRenders + 1
    /\ UNCHANGED <<chartSeries, mountHookCalls>>
    /\ UNCHANGED otherThanChart

NextChart ==
    \/ \E s \in SeriesDomain : RenderChart(s)
    \/ \E i \in 1..MaxPoints : showTooltip(i)
    \/ hideTooltip

SpecChart == ChartInit /\ [][NextChart]_vars

\* every fairValue and marketValue of the series is <= 0
NoValueAboveZero(s) ==
    \A i \in 1..Len(s) : LeqZero(s[i].fairValue) /\ LeqZero(s[i].marketValue)

\* C25: for an empty series and for one whose values are all <= 0 the
\* render returns the placeholder, without axes, ticks or bars; the chart is
\* rendered only for a series with some value > 0.
C25_PlaceholderWithoutPositiveValue ==
    /\ (Len(chartSeries) = 0 \/ NoValueAboveZero(chartSeries)) =>
          /\ chartOutput.kind = "placeholder"
          /\ chartOutput.axes = 0 /\ ~chartOutput.ticks /\ chartOutput.bars = 0
    /\ chartOutput.kind = "chart" =>
          \E i \in 1..Len(chartSeries) :
              \/ Less(Fin(0), chartSeries[i].fairValue)
              \/ Less(Fin(0), chartSeries[i].marketValue)

\* a chart replaced by the placeholder for a series of zero and negative values
C25_Witness ==
    /\ chartRenders > 1
    /\ Len(chartSeries) = 2
    /\ NoValueAboveZero(chartSeries)
    /\ chartSeries[1].fairValue = Fin(0)
    /\ chartSeries[2].fairValue = Fin(-5)
    /\ mountHookCalls = <<"useState">>
    /\ chartOutput = Placeholder

\* C30: every render of the mounted instance calls the hooks the mounting
\* render called, whatever series it is given.
C30_SameHooksEveryRender == hookCalls = mountHookCalls

(***************************************************************************)
(* AuthProvider (appended to src/frontend/src/utils/growth.ts, lines       *)
(* 87-230) over ApiClient, and AdminPage (src/unnamed/part_008).  A user   *)
(* is a number, 0 standing for null and for a missing item of              *)
(* localStorage; an action is a call up to its first await or the          *)
(* settling of the network call it awaits, with the state updates and the  *)
(* render of AdminPage that follow.                                        *)
(***************************************************************************)
AuthUsers == {1, 2}

\* user.subscription_type
subscription_type(u) == IF u = 1 THEN "admin" ELSE "free"

\* part_008 lines 17-29 without the redirect of lines 17-19
AdminPageMutNoRedirect(u, loading, tab) ==
    IF loading THEN "loading" ELSE tab

\* part_008 lines 12-80: what a render of AdminPage comes to: the redirect
\* that leaves the render, the loading placeholder, or the panel of the tab
AdminPage(u, loading, tab) ==
    IF ~loading /\ (u = 0 \/ subscription_type(u) # "admin") THEN "redirect"
    ELSE IF loading THEN "loading"
    ELSE tab

\* getCurrentUser(): a user, an error response, or a 401 whose token
\* refresh failed
Outcomes == {"ok", "error", "unauthorized"}

\* api.ts lines 124-127: the failed refresh behind a 401 has cleared the tokens
StorageAfter(st, o) == IF o = "unauthorized" THEN clearTokens(st) ELSE st

MaxAuthCalls == 2

InitialStorages ==
    {[access_token |-> a, refresh_token |-> r, user |-> u] :
        a \in {0, 1}, r \in {0, 1}, u \in {0} \cup AuthUsers}

\* lines 105-106: the states of the mounting render
AuthInit ==
    /\ authStorage \in InitialStorages
    /\ authUser = 0
    /\ isLoading = TRUE
    /\ initPc = "mount"
    /\ loginPc = "idle"
    /\ registerPc = "idle"
    /\ signOutPc = "idle"
    /\ refreshPc = "idle"
    /\ registerResult = "none"
    /\ authCalls = 0
    /\ activeTab = "users"
    /\ adminOutput = AdminPage(0, TRUE, "users")
    /\ OnlyAuth

\* every action ends with the render of AdminPage from the new states
Rendered == adminOutput' = AdminPage(authUser', isLoading', activeTab')

\* lines 109-120, 136-146: the effect runs initAuth up to its first await
InitAuth ==
    /\ initPc = "mount"
    /\ IF isAuthenticated(authStorage) /\ authStorage.user = 0
       THEN /\ initPc' = "me"
            /\ UNCHANGED <<authUser, isLoading>>
       ELSE /\ initPc' = "done"
            /\ authUser' = (IF isAuthenticated(authStorage) THEN authStorage.user ELSE authUser)
            /\ isLoading' = FALSE
    /\ UNCHANGED <<authStorage, loginPc, registerPc, signOutPc, refreshPc,
                   registerResult, authCalls, activeTab>>
    /\ Rendered
    /\ UNCHANGED otherThanAuth

\* lines 120-126, 130-133, 140-141: getCurrentUser() of initAuth settles
InitAuthUserSettles(o, u) ==
    /\ initPc = "me"
    /\ IF o = "ok"
       THEN /\ authUser' = u
            /\ authStorage' = [authStorage EXCEPT !.user = u]
            /\ isLoading' = FALSE
            /\ initPc' = "done"
       ELSE IF StorageAfter(authStorage, o).refresh_token = 0
       THEN /\ authStorage' = clearTokens(StorageAfter(authStorage, o))
            /\ authUser' = 0
            /\ isLoading' = FALSE
            /\ initPc' = "done"
       ELSE /\ authStorage' = StorageAfter(authStorage, o)
            /\ initPc' = "refresh"
            /\ UNCHANGED <<authUser, isLoading>>
    /\ UNCHANGED <<loginPc, registerPc, signOutPc, refreshPc, registerResult,
                   authCalls, activeTab>>
    /\ Rendered
    /\ UNCHANGED otherThanAuth

\* lines 126-127, 130-133, 140-141 and api.ts 318-326: the refresh of
\* initAuth settles
InitAuthRefreshSettles(ok) ==
    /\ initPc = "refresh"
    /\ IF ok
       THEN /\ authStorage' = [authStorage EXCEPT !.access_token = 1]
            /\ initPc' = "me2"
            /\ UNCHANGED <<authUser, isLoading>>
       ELSE /\ authStorage' = clearTokens(authStorage)
            /\ authUser' = 0
            /\ isLoading' = FALSE
            /\ initPc' = "done"
    /\ UNCHANGED <<loginPc, registerPc, signOutPc, refreshPc, registerResult,
                   authCalls, activeTab>>
    /\ Rendered
    /\ UNCHANGED otherThanAuth

\* lines 127-133, 140-141: the second getCurrentUser() of initAuth settles
InitAuthRetrySettles(o, u) ==
    /\ initPc = "me2"
    /\ IF o = "ok"
       THEN /\ authUser' = u
            /\ authStorage' = [authStorage EXCEPT !.user = u]
       ELSE /\ authStorage' = clearTokens(StorageAfter(authStorage, o))
            /\ authUser' = 0
    /\ isLoading' = FALSE
    /\ initPc' = "done"
    /\ UNCHANGED <<loginPc, registerPc, signOutPc, refreshPc, registerResult,
                   authCalls, activeTab>>
    /\ Rendered
    /\ UNCHANGED otherThanAuth

\* lines 148-151: login() up to the POST of apiClient.login
CallLogin ==
    /\ loginPc = "idle"
    /\ authCalls < MaxAuthCalls
    /\ authCalls' = authCalls + 1
    /\ isLoading' = TRUE
    /\ loginPc' = "token"
    /\ UNCHANGED <<authStorage, authUser, initPc, registerPc, signOutPc, refreshPc,
                   registerResult, activeTab>>
    /\ Rendered
    /\ UNCHANGED otherThanAuth

\* lines 151-159, 167-169 and api.ts 214-228: the POST of login settles
LoginTokenSettles(ok, u) ==
    /\ loginPc = "token"
    /\ IF ok
       THEN /\ authStorage' = [access_token |-> 1, refresh_token |-> 1, user |-> u]
            /\ authUser' = u
            /\ loginPc' = "me"
            /\ UNCHANGED isLoading
       ELSE /\ isLoading' = FALSE
            /\ loginPc' = "idle"
            /\ UNCHANGED <<authStorage, authUser>>
    /\ UNCHANGED <<initPc, registerPc, signOutPc, refreshPc, registerResult,
                   authCalls, activeTab>>
    /\ Rendered
    /\ UNCHANGED otherThanAuth

\* lines 159-169: getCurrentUser() of login settles
LoginUserSettles(o, u) ==
    /\ loginPc = "me"
    /\ IF o = "ok"
       THEN /\ authUser' = u
            /\ authStorage' = [authStorage EXCEPT !.user = u]
       ELSE /\ authStorage' = StorageAfter(authStorage, o)
            /\ UNCHANGED authUser
    /\ isLoading' = FALSE
    /\ loginPc' = "idle"
    /\ UNCHANGED <<initPc, registerPc, signOutPc, refreshPc, registerResult,
                   authCalls, activeTab>>
    /\ Rendered
    /\ UNCHANGED otherThanAuth

\* lines 172-175: register() up to the POST of apiClient.register
CallRegister ==
    /\ registerPc = "idle"
    /\ authCalls < MaxAuthCalls
    /\ authCalls' = authCalls + 1
    /\ isLoading' = TRUE
    /\ registerPc' = "post"
    /\ registerResult' = "pending"
    /\ UNCHANGED <<authStorage, authUser, initPc, loginPc, signOutPc, refreshPc, activeTab>>
    /\ Rendered
    /\ UNCHANGED otherThanAuth

\* lines 175-179 with the storing of login (api.ts 224-226) after a
\* registration that succeeded
RegisterSettlesMutAutoLogin(ok) ==
    /\ registerPc = "post"
    /\ registerPc' = "idle"
    /\ registerResult' = (IF ok THEN "resolved" ELSE "rejected")
    /\ isLoading' = FALSE
    /\ authStorage' = (IF ok THEN [access_token |-> 1, refresh_token |-> 1, user |-> 2]
                       ELSE authStorage)
    /\ UNCHANGED <<authUser, initPc, loginPc, signOutPc, refreshPc, authCalls, activeTab>>
    /\ Rendered
    /\ UNCHANGED otherThanAuth

\* lines 175-179 without the finally clause: a rejection leaves isLoading
RegisterSettlesMutNoFinally(ok) ==
    /\ registerPc = "post"
    /\ registerPc' = "idle"
    /\ registerResult' = (IF ok THEN "resolved" ELSE "rejected")
    /\ isLoading' = (IF ok THEN FALSE ELSE isLoading)
    /\ UNCHANGED <<authStorage, authUser, initPc, loginPc, signOutPc, refreshPc,
                   authCalls, activeTab>>
    /\ Rendered
    /\ UNCHANGED otherThanAuth

\* lines 175-179 and api.ts 238-273: the POST of register settles; the
\* response is returned or thrown, and nothing is stored
RegisterSettles(ok) ==
    /\ registerPc = "post"
    /\ registerPc' = "idle"
    /\ registerResult' = (IF ok THEN "resolved" ELSE "rejected")
    /\ isLoading' = FALSE
    /\ UNCHANGED <<authStorage, authUser, initPc, loginPc, signOutPc, refreshPc,
                   authCalls, activeTab>>
    /\ Rendered
    /\ UNCHANGED otherThanAuth

\* lines 182-185: logout() up to the POST of apiClient.logout
CallLogout ==
    /\ signOutPc = "idle"
    /\ authCalls < MaxAuthCalls
    /\ authCalls' = authCalls + 1
    /\ isLoading' = TRUE
    /\ signOutPc' = "post"
    /\ UNCHANGED <<authStorage, authUser, initPc, loginPc, registerPc, refreshPc,
                   registerResult, activeTab>>
    /\ Rendered
    /\ UNCHANGED otherThanAuth

\* lines 185-189 and api.ts 282-286: the POST of logout settles, either way
SignOutSettles ==
    /\ signOutPc = "post"
    /\ signOutPc' = "idle"
    /\ authStorage' = clearTokens(authStorage)
    /\ authUser' = 0
    /\ isLoading' = FALSE
    /\ UNCHANGED <<initPc, loginPc, registerPc, refreshPc, registerResult,
                   authCalls, activeTab>>
    /\ Rendered
    /\ UNCHANGED otherThanAuth

\* lines 192-194, 200-204 and api.ts 306-316: refreshToken() up to its POST
CallRefreshToken ==
    /\ refreshPc = "idle"
    /\ authCalls < MaxAuthCalls
    /\ authCalls' = authCalls + 1
    /\ IF authStorage.refresh_token = 0
       THEN /\ authStorage' = clearTokens(authStorage)
            /\ authUser' = 0
            /\ UNCHANGED refreshPc
       ELSE /\ refreshPc' = "post"
            /\ UNCHANGED <<authStorage, authUser>>
    /\ UNCHANGED <<isLoading, initPc, loginPc, registerPc, signOutPc,
                   registerResult, activeTab>>
    /\ Rendered
    /\ UNCHANGED otherThanAuth

\* lines 194-196, 200-204 and api.ts 318-326: the POST of refreshToken settles
RefreshTokenSettles(ok) ==
    /\ refreshPc = "post"
    /\ IF ok
       THEN /\ authStorage' = [authStorage EXCEPT !.access_token = 1]
            /\ refreshPc' = "me"
            /\ UNCHANGED authUser
       ELSE /\ authStorage' = clearTokens(authStorage)
            /\ authUser' = 0
            /\ refreshPc' = "idle"
    /\ UNCHANGED <<isLoading, initPc, loginPc, registerPc, signOutPc,
                   registerResult, authCalls, activeTab>>
    /\ Rendered
    /\ UNCHANGED otherThanAuth

\* lines 196-204: getCurrentUser() of refreshToken settles
RefreshUserSettles(o, u) ==
    /\ refreshPc = "me"
    /\ IF o = "ok"
       THEN /\ authUser' = u
            /\ authStorage' = [authStorage EXCEPT !.user = u]
       ELSE /\ authStorage' = clearTokens(StorageAfter(authStorage, o))
            /\ authUser' = 0
    /\ refreshPc' = "idle"
    /\ UNCHANGED <<isLoading, initPc, loginPc, registerPc, signOutPc,
                   registerResult, authCalls, activeTab>>
    /\ Rendered
    /\ UNCHANGED otherThanAuth

\* part_008 lines 45 and 58: a click on a tab of the panel
setActiveTab(tab) ==
    /\ adminOutput \in {"users", "logs"}
    /\ activeTab # tab
    /\ activeTab' = tab
    /\ UNCHANGED <<authStorage, authUser, isLoading, initPc, loginPc, registerPc,
                   signOutPc, refreshPc, registerResult, authCalls>>
    /\ Rendered
    /\ UNCHANGED otherThanAuth

NextAuth ==
    \/ InitAuth
    \/ \E o \in Outcomes, u \in AuthUsers : InitAuthUserSettles(o, u)
    \/ \E ok \in BOOLEAN : InitAuthRefreshSettles(ok)
    \/ \E o \in Outcomes, u \in AuthUsers : InitAuthRetrySettles(o, u)
    \/ CallLogin
    \/ \E ok \in BOOLEAN, u \in AuthUsers : LoginTokenSettles(ok, u)
    \/ \E o \in Outcomes, u \in AuthUsers : LoginUserSettles(o, u)
    \/ CallRegister
    \/ \E ok \in BOOLEAN : RegisterSettles(ok)
    \/ CallLogout
    \/ SignOutSettles
    \/ CallRefreshToken
    \/ \E ok \in BOOLEAN : RefreshTokenSettles(ok)
    \/ \E o \in Outcomes, u \in AuthUsers : RefreshUserSettles(o, u)
    \/ \E tab \in {"users", "logs"} : setActiveTab(tab)

SpecAuth == AuthInit /\ [][NextAuth]_vars

\* the effect of the mounted provider runs, and every network call settles
AuthFairness ==
    /\ WF_vars(InitAuth)
    /\ WF_vars(\E o \in Outcomes, u \in AuthUsers : InitAuthUserSettles(o, u))
    /\ WF_vars(\E ok \in BOOLEAN : InitAuthRefreshSettles(ok))
    /\ WF_vars(\E o \in Outcomes, u \in AuthUsers : InitAuthRetrySettles(o, u))
    /\ WF_vars(\E ok \in BOOLEAN, u \in AuthUsers : LoginTokenSettles(ok, u))
    /\ WF_vars(\E o \in Outcomes, u \in AuthUsers : LoginUserSettles(o, u))
    /\ WF_vars(\E ok \in BOOLEAN : RegisterSettles(ok))
    /\ WF_vars(SignOutSettles)
    /\ WF_vars(\E ok \in BOOLEAN : RefreshTokenSettles(ok))
    /\ WF_vars(\E o \in Outcomes, u \in AuthUsers : RefreshUserSettles(o, u))

SpecAuthFair == SpecAuth /\ AuthFairness

\* C26: AdminPage renders a panel only while isLoading is false and the user
\* is an admin; while isLoading it renders the loading placeholder only; in
\* every other state it redirects.
C26_PanelsOnlyForAdmin ==
    /\ adminOutput \in {"users", "logs"} =>
          ~isLoading /\ authUser # 0 /\ subscription_type(authUser) = "admin"
    /\ isLoading => adminOutput = "loading"
    /\ (~isLoading /\ (authUser = 0 \/ subscription_type(authUser) # "admin")) =>
          adminOutput = "redirect"

\* an admin has logged in and looks at the logs panel
C26_Witness ==
    /\ authCalls > 0
    /\ loginPc = "idle"
    /\ authUser = 1
    /\ isAuthenticated(authStorage)
    /\ ~isLoading
    /\ adminOutput = "logs"

\* a step of a register call: its start or the settling of its POST
RegisterStep == registerPc' # registerPc

\* C27: a step of a register call leaves access_token, refresh_token and
\* user of localStorage and the provider's user as they are, and with them
\* isAuthenticated of the client and of the provider.
C27_RegisterDoesNotLogIn ==
    [][RegisterStep =>
          /\ authStorage' = authStorage
          /\ authUser' = authUser
          /\ isAuthenticated(authStorage') = isAuthenticated(authStorage)
          /\ (authUser' # 0) = (authUser # 0)]_vars

\* a registration has succeeded and nobody is logged in
C27_Witness ==
    /\ registerResult = "resolved"
    /\ registerPc = "idle"
    /\ authUser = 0
    /\ ~isAuthenticated(authStorage)
    /\ authStorage.user = 0
    /\ ~isLoading

\* C28: whenever isLoading is true (after mount, and after a call of login,
\* register or logout) it becomes false again, whether the call succeeds or
\* fails, provided every network call settles.
C28_LoadingEnds == isLoading ~> ~isLoading

\* a register call was rejected and isLoading is false
C28_Witness ==
    /\ registerResult = "rejected"
    /\ initPc = "done"
    /\ loginPc = "idle" /\ registerPc = "idle" /\ signOutPc = "idle"
    /\ ~isLoading

====
